---------------------------- MODULE Spec2Model ----------------------------
(***************************************************************************)
(* Model of the network-dynamics core of Nellie_manual_annotation_pipeline *)
(* (src/dynamics): spatial node matching, six-category event               *)
(* classification, the time-series driver, topology aggregation,           *)
(* reconciliation and topology-driven inference.                           *)
(*                                                                         *)
(* Conventions                                                             *)
(*  - A DataFrame is a record [columns, rows]; rows is a sequence of row   *)
(*    records.  Python's 0-based positional index k (df.iloc[k]) is the    *)
(*    model's index k+1.                                                   *)
(*  - Coordinates are integers.  z_scale is the rational num/den, held as  *)
(*    <<num, den>>.  A distance d is held as the integer den^2 * d^2, and  *)
(*    "d <= t" is decided as den^2 * d^2 <= den^2 * t^2: squaring is       *)
(*    monotone on the nonnegative numbers.                                 *)
(*  - An optional dictionary entry is a sequence of length 0 (absent) or   *)
(*    1 (present).                                                         *)
(***************************************************************************)
EXTENDS Integers, Sequences, FiniteSets, TLC

VARIABLES
    pc,                  \* position of the control flow
    df_t1, df_t2,        \* arguments of a direct classify_network_events call
    combined_df,         \* the loaded time series (a DataFrame)
    distance_threshold,  \* argument distance_threshold
    z_scale,             \* app_state.z_resolution / app_state.y_resolution
    persistence_window,  \* argument persistence_window
    matches,             \* result of match_nodes_spatially
    events,              \* result of classify_network_events
    loop_i,              \* loop index i of analyze_timeseries_events
    all_events,          \* all_events of analyze_timeseries_events
    classified,          \* the transitions classified so far, in call order
    reconciliation,      \* result of reconcile_topology_and_events
    inferred_df_total,   \* result of infer_events_for_timeseries, minimize_total
    inferred_df_discrepancy, \* its result for minimize_discrepancy
    priors_passed,       \* detected_events handed to the Inferrer, by transition
    events_dict,         \* argument of calculate_expected_topology_changes
    expected,            \* result of calculate_expected_topology_changes
    delta_tips,          \* argument delta_tips of the Inferrer
    delta_junctions,     \* argument delta_junctions of the Inferrer
    detected_events,     \* argument detected_events of the Inferrer
    method,              \* argument method of the Inferrer
    inference,           \* result of infer_events_from_topology_change
    solver_steps,        \* the solves and fallbacks of the call, in order
    first_run,           \* what an earlier run on the same table returned
    event_files,         \* the event CSV files of app_state.loaded_folder
    events_layer,        \* the viewer's 'Dynamic Events' layer, or None
    current_timepoint,   \* the value of the image slider
    modifications,       \* event_correction_state.modifications
    calls,               \* the add/delete calls so far and what they returned
    before_call          \* the files and the log before the last call

vars == <<pc, df_t1, df_t2, combined_df, distance_threshold, z_scale,
          persistence_window, matches, events, loop_i, all_events,
          classified, reconciliation, inferred_df_total,
          inferred_df_discrepancy, priors_passed, events_dict, expected,
          delta_tips, delta_junctions, detected_events, method, inference,
          solver_steps, first_run, event_files, events_layer,
          current_timepoint, modifications, calls, before_call>>

\* The variables of the time-series driver and of the topology aggregation
seriesVars == <<loop_i, all_events, classified, reconciliation,
                inferred_df_total, inferred_df_discrepancy, priors_passed,
                first_run>>

\* The variables of a direct call of classify_network_events
callVars == <<df_t1, df_t2, combined_df, distance_threshold, z_scale,
              persistence_window, matches, events>>

\* The variables of a direct call of calculate_expected_topology_changes
expectVars == <<events_dict, expected>>

\* The variables of a direct call of infer_events_from_topology_change
inferVars == <<delta_tips, delta_junctions, detected_events, method, inference,
               solver_steps>>

\* The variables of the manual event correction
correctVars == <<event_files, events_layer, current_timepoint, modifications,
                 calls, before_call>>

\* None; an argument or result that may be None is held as a sequence of
\* length 0 (None) or 1 (the value)
None == <<>>
Some(value) == <<value>>

--------------------------------------------------------------------------
(* Generic helpers                                                        *)

Range(s) == {s[k] : k \in DOMAIN s}

Min(S) == CHOOSE x \in S : \A y \in S : x <= y

RECURSIVE SortedSeq(_)
\* Python's sorted() on a set of integers
SortedSeq(S) ==
    IF S = {} THEN <<>>
    ELSE LET m == Min(S) IN <<m>> \o SortedSeq(S \ {m})

RECURSIVE Flatten(_)
\* list.append / list.extend in iteration order: the concatenation of a
\* sequence of sequences
Flatten(ss) ==
    IF ss = <<>> THEN <<>> ELSE Head(ss) \o Flatten(Tail(ss))

Count(s, e) == Cardinality({k \in DOMAIN s : s[k] = e})

Abs(x) == IF x < 0 THEN -x ELSE x

--------------------------------------------------------------------------
(* Adjacency field values and their parse                                 *)

\* The value of an 'adjacencies' cell.  kind says what Python object it is:
\*   "list"        a list object
\*   "str_list"    a string that is the literal of a list, e.g. "[2, 3]"
\*   "str_tuple"   a string that is the literal of a tuple, e.g. "(2, 3)"
\*   "str_int"     a string that is the literal of a number, e.g. "5"
\*   "str_str"     a string that is the literal of a string, e.g. "'abc'";
\*                 items are its characters (as code points)
\*   "str_dict"    a string that is the literal of a dict, e.g. "{1: 2}";
\*                 items are its keys
\*   "str_garbage" a string that is no Python literal
\*   "nan"         a missing value (float NaN) or None
AdjList(items) == [kind |-> "list", items |-> items]
AdjStr(items) == [kind |-> "str_list", items |-> items]

\* parse_adjacencies: the Python value it returns, [t, items]
parse_adjacencies(adj_str) ==
    CASE adj_str.kind = "str_list"    -> [t |-> "list", items |-> adj_str.items]
      [] adj_str.kind = "str_tuple"   -> [t |-> "tuple", items |-> adj_str.items]
      [] adj_str.kind = "str_int"     -> [t |-> "int", items |-> <<>>]
      [] adj_str.kind = "str_str"     -> [t |-> "str", items |-> adj_str.items]
      [] adj_str.kind = "str_dict"    -> [t |-> "dict", items |-> adj_str.items]
      [] adj_str.kind = "str_garbage" -> [t |-> "list", items |-> <<>>]
      [] adj_str.kind = "list"        -> [t |-> "list", items |-> adj_str.items]
      [] OTHER                        -> [t |-> "list", items |-> <<>>]

\* len() of the parsed value raises TypeError for a number
DegreeRaises(adj_str) == parse_adjacencies(adj_str).t = "int"

\* calculate_degree_from_adjacencies (event_detector): len(parse_adjacencies(.))
calculate_degree_from_adjacencies(adj_str) ==
    Len(parse_adjacencies(adj_str).items)

--------------------------------------------------------------------------
(* DataFrames                                                             *)

\* pd.DataFrame(). A frame carries its columns, its rows and pos_dtype, the
\* dtype of df[['pos_x', 'pos_y', 'pos_z']].values: int64 when the three
\* columns hold integers (voxel coordinates read from a CSV), else float64
NoFrame == [columns |-> {}, rows |-> <<>>, pos_dtype |-> "float64"]

BaseColumns == {"node", "pos_x", "pos_y", "pos_z", "adjacencies", "time_point"}
DynamicsColumns == {"convergence_raw", "divergence_raw"}

\* df.empty
Empty(df) == Len(df.rows) = 0

\* combined_df[combined_df['time_point'] == tp]
FrameAt(df, tp) ==
    [columns |-> df.columns,
     rows |-> SelectSeq(df.rows, LAMBDA r : r.time_point = tp),
     pos_dtype |-> df.pos_dtype]

\* sorted(combined_df['time_point'].unique())
TimePoints(df) == SortedSeq({df.rows[k].time_point : k \in DOMAIN df.rows})

\* has_dynamics_data
has_dynamics_data(df) ==
    "convergence_raw" \in df.columns /\ "divergence_raw" \in df.columns

\* df.iloc[idx].get(col, 0) for a signal column
GetSignal(df, idx, col) ==
    IF col \in df.columns THEN df.rows[idx][col] ELSE 0

Pos(df, idx) == <<df.rows[idx].pos_x, df.rows[idx].pos_y, df.rows[idx].pos_z>>

--------------------------------------------------------------------------
(* Geometry                                                               *)

\* den^2 * |p - q|^2 after multiplying both z coordinates by num/den
ScaledDist2(p, q, zs) ==
    zs[2] * zs[2] * ((p[1] - q[1]) * (p[1] - q[1]) + (p[2] - q[2]) * (p[2] - q[2]))
    + zs[1] * zs[1] * (p[3] - q[3]) * (p[3] - q[3])

\* distance <= limit, the limit an integer
WithinDist(d2, limit, zs) == d2 <= zs[2] * zs[2] * limit * limit

--------------------------------------------------------------------------
(* SpatialMatcher and the persistence lookups (event_detector.py)         *)

\* df['actual_degree'][idx]
actual_degree(df, idx) ==
    calculate_degree_from_adjacencies(df.rows[idx].adjacencies)

\* A dict with no key
EmptyDict == [k \in {} |-> <<>>]

\* int(x) of a rational a / b with b > 0: towards zero
Trunc(a, b) == IF a >= 0 THEN a \div b ELSE -((-a) \div b)

\* den times pos_scaled[idx, 2] of match_nodes_spatially: the product
\* pos[:, 2] * z_scale is assigned into a copy of df[...].values, which keeps
\* the dtype of .values; an int64 array stores the product truncated
ScaledZ(df, idx, zs) ==
    IF df.pos_dtype = "int64"
    THEN zs[2] * Trunc(df.rows[idx].pos_z * zs[1], zs[2])
    ELSE df.rows[idx].pos_z * zs[1]

\* den^2 * cdist(pos1_scaled, pos2_scaled)[i, j]^2
MatcherDist2(df1, i, df2, j, zs) ==
    zs[2] * zs[2] * ((df1.rows[i].pos_x - df2.rows[j].pos_x)
                         * (df1.rows[i].pos_x - df2.rows[j].pos_x)
                     + (df1.rows[i].pos_y - df2.rows[j].pos_y)
                         * (df1.rows[i].pos_y - df2.rows[j].pos_y))
    + (ScaledZ(df1, i, zs) - ScaledZ(df2, j, zs))
          * (ScaledZ(df1, i, zs) - ScaledZ(df2, j, zs))

\* match_nodes_spatially with the threshold exclusive
match_nodes_spatially_strict(df1, df2, threshold, zs) ==
    IF Empty(df1) \/ Empty(df2) THEN EmptyDict
    ELSE LET valid_matches(i) ==
                 SortedSeq({j \in DOMAIN df2.rows :
                     MatcherDist2(df1, i, df2, j, zs)
                         < zs[2] * zs[2] * threshold * threshold})
         IN [i \in {k \in DOMAIN df1.rows : valid_matches(k) # <<>>}
                 |-> valid_matches(i)]

\* match_nodes_spatially: dict from a t1 index to the ascending list of the
\* t2 indices within distance_threshold; a key only for a non-empty list
match_nodes_spatially(df1, df2, threshold, zs) ==
    IF Empty(df1) \/ Empty(df2) THEN EmptyDict
    ELSE LET valid_matches(i) ==
                 SortedSeq({j \in DOMAIN df2.rows :
                     WithinDist(MatcherDist2(df1, i, df2, j, zs),
                                threshold, zs)})
         IN [i \in {k \in DOMAIN df1.rows : valid_matches(k) # <<>>}
                 |-> valid_matches(i)]

\* find_node_at_position: the first index within the threshold, 0 for None
find_node_at_position(df, pos, threshold, zs) ==
    LET hits == {idx \in DOMAIN df.rows :
                    WithinDist(ScaledDist2(pos, Pos(df, idx), zs), threshold, zs)}
    IN IF Empty(df) \/ hits = {} THEN 0 ELSE Min(hits)

\* check_node_exists_in_frames: found in ALL the given timepoints
check_node_exists_in_frames(cdf, pos, timepoints, threshold, zs) ==
    \A k \in DOMAIN timepoints :
        LET df_tp == FrameAt(cdf, timepoints[k])
        IN ~Empty(df_tp) /\ find_node_at_position(df_tp, pos, threshold, zs) # 0

\* check_node_absent_in_frames: found in NONE of the given timepoints
check_node_absent_in_frames(cdf, pos, timepoints, threshold, zs) ==
    \A k \in DOMAIN timepoints :
        LET df_tp == FrameAt(cdf, timepoints[k])
        IN Empty(df_tp) \/ find_node_at_position(df_tp, pos, threshold, zs) = 0

\* are_nodes_adjacent looking only at the first node's list
are_nodes_adjacent_oneway(df, idx1, idx2) ==
    LET node2_id == df.rows[idx2].node
        adj1 == parse_adjacencies(df.rows[idx1].adjacencies).items
    IN node2_id \in Range(adj1)

\* are_nodes_adjacent: either node lists the other's id
are_nodes_adjacent(df, idx1, idx2) ==
    LET node1_id == df.rows[idx1].node
        node2_id == df.rows[idx2].node
        adj1 == parse_adjacencies(df.rows[idx1].adjacencies).items
        adj2 == parse_adjacencies(df.rows[idx2].adjacencies).items
    IN node2_id \in Range(adj1) \/ node1_id \in Range(adj2)

\* are_nodes_adjacent raises TypeError: `node_id in adj` for an adj that
\* parsed to a string; adj2 is looked at only when adj1 does not list node2
AdjacentRaises(df, idx1, idx2) ==
    LET node2_id == df.rows[idx2].node
        adj1 == parse_adjacencies(df.rows[idx1].adjacencies)
        adj2 == parse_adjacencies(df.rows[idx2].adjacencies)
    IN \/ adj1.t = "str"
       \/ node2_id \notin Range(adj1.items) /\ adj2.t = "str"

--------------------------------------------------------------------------
(* EventClassifier (event_detector.py, classify_network_events).  A call  *)
(* is the record c = [df_t1, df_t2, threshold, zs, cdf, window]; cdf is   *)
(* NoFrame for combined_df=None.                                          *)

Call(df1, df2, threshold, zs, cdf, window) ==
    [df_t1 |-> df1, df_t2 |-> df2, threshold |-> threshold, zs |-> zs,
     cdf |-> cdf, window |-> window]

use_dynamics(c) == has_dynamics_data(c.df_t1) /\ has_dynamics_data(c.df_t2)

\* t1_timepoint / t2_timepoint are None for an empty frame
use_persistence(c) ==
    c.cdf # NoFrame /\ c.window > 1 /\ ~Empty(c.df_t1) /\ ~Empty(c.df_t2)

t1_timepoint(c) == c.df_t1.rows[1].time_point
t2_timepoint(c) == c.df_t2.rows[1].time_point

\* frames_before with a window one frame shorter
frames_before_short(c) ==
    SelectSeq(TimePoints(c.cdf),
              LAMBDA tp : t1_timepoint(c) - c.window + 1 < tp /\ tp < t1_timepoint(c))

\* Frames before t1 (where disappearing nodes should exist)
frames_before(c) ==
    SelectSeq(TimePoints(c.cdf),
              LAMBDA tp : t1_timepoint(c) - c.window < tp /\ tp < t1_timepoint(c))

\* Frames after t2 (where appearing nodes should persist)
frames_after(c) ==
    SelectSeq(TimePoints(c.cdf),
              LAMBDA tp : t2_timepoint(c) < tp /\ tp <= t2_timepoint(c) + c.window)

Matches(c) == match_nodes_spatially(c.df_t1, c.df_t2, c.threshold, c.zs)

matched_t1_indices(c) == DOMAIN Matches(c)
matched_t2_indices(c) == UNION {Range(Matches(c)[i]) : i \in DOMAIN Matches(c)}

ExistsBefore(c, pos) ==
    check_node_exists_in_frames(c.cdf, pos, frames_before(c), c.threshold, c.zs)
ExistsAfter(c, pos) ==
    check_node_exists_in_frames(c.cdf, pos, frames_after(c), c.threshold, c.zs)
AbsentBefore(c, pos) ==
    check_node_absent_in_frames(c.cdf, pos, frames_before(c), c.threshold, c.zs)
AbsentAfter(c, pos) ==
    check_node_absent_in_frames(c.cdf, pos, frames_after(c), c.threshold, c.zs)

\* The persistence test of a one-to-one candidate (both categories):
\* the t1 position existed before, the t2 position persists after
OneToOnePersists(c, pos_t1, pos_t2) ==
    use_persistence(c) =>
        /\ (frames_before(c) # <<>> => ExistsBefore(c, pos_t1))
        /\ (frames_after(c) # <<>> => ExistsAfter(c, pos_t2))

\* An optional dict entry, present only with use_dynamics
Entry(c, value) == IF use_dynamics(c) THEN <<value>> ELSE <<>>

\* Tip-edge fusion that takes only degree 3 for a junction
TipEdgeFusionOf_exact3(c, t1_idx) ==
    LET t2_indices_list == Matches(c)[t1_idx]
        t2_idx == t2_indices_list[1]
        degree_t1 == actual_degree(c.df_t1, t1_idx)
        degree_t2 == actual_degree(c.df_t2, t2_idx)
        convergence_t2 == GetSignal(c.df_t2, t2_idx, "convergence_raw")
    IN IF /\ Len(t2_indices_list) = 1
          /\ degree_t1 = 1 /\ degree_t2 = 3
          /\ (use_dynamics(c) => ~(convergence_t2 <= 0))
          /\ OneToOnePersists(c, Pos(c.df_t1, t1_idx), Pos(c.df_t2, t2_idx))
       THEN <<[position_t1 |-> Pos(c.df_t1, t1_idx),
                position_t2 |-> Pos(c.df_t2, t2_idx),
                degree_t1 |-> degree_t1,
                degree_t2 |-> degree_t2,
                timepoint_1 |-> c.df_t1.rows[t1_idx].time_point,
                timepoint_2 |-> c.df_t2.rows[t2_idx].time_point,
                convergence |-> Entry(c, convergence_t2)]>>
       ELSE <<>>

\* Tip-edge fusion that rejects only a negative convergence
TipEdgeFusionOf_nonneg(c, t1_idx) ==
    LET t2_indices_list == Matches(c)[t1_idx]
        t2_idx == t2_indices_list[1]
        degree_t1 == actual_degree(c.df_t1, t1_idx)
        degree_t2 == actual_degree(c.df_t2, t2_idx)
        convergence_t2 == GetSignal(c.df_t2, t2_idx, "convergence_raw")
    IN IF /\ Len(t2_indices_list) = 1
          /\ degree_t1 = 1 /\ degree_t2 >= 3
          /\ (use_dynamics(c) => ~(convergence_t2 < 0))
          /\ OneToOnePersists(c, Pos(c.df_t1, t1_idx), Pos(c.df_t2, t2_idx))
       THEN <<[position_t1 |-> Pos(c.df_t1, t1_idx),
                position_t2 |-> Pos(c.df_t2, t2_idx),
                degree_t1 |-> degree_t1,
                degree_t2 |-> degree_t2,
                timepoint_1 |-> c.df_t1.rows[t1_idx].time_point,
                timepoint_2 |-> c.df_t2.rows[t2_idx].time_point,
                convergence |-> Entry(c, convergence_t2)]>>
       ELSE <<>>

\* Tip-edge fusion that wants the t2 node matched by no other t1 node
TipEdgeFusionOf_bijective(c, t1_idx) ==
    LET t2_indices_list == Matches(c)[t1_idx]
        t2_idx == t2_indices_list[1]
        degree_t1 == actual_degree(c.df_t1, t1_idx)
        degree_t2 == actual_degree(c.df_t2, t2_idx)
        convergence_t2 == GetSignal(c.df_t2, t2_idx, "convergence_raw")
    IN IF /\ Len(t2_indices_list) = 1
          /\ \A other \in DOMAIN Matches(c) :
                other # t1_idx => t2_idx \notin Range(Matches(c)[other])
          /\ degree_t1 = 1 /\ degree_t2 >= 3
          /\ (use_dynamics(c) => ~(convergence_t2 <= 0))
          /\ OneToOnePersists(c, Pos(c.df_t1, t1_idx), Pos(c.df_t2, t2_idx))
       THEN <<[position_t1 |-> Pos(c.df_t1, t1_idx),
                position_t2 |-> Pos(c.df_t2, t2_idx),
                degree_t1 |-> degree_t1,
                degree_t2 |-> degree_t2,
                timepoint_1 |-> c.df_t1.rows[t1_idx].time_point,
                timepoint_2 |-> c.df_t2.rows[t2_idx].time_point,
                convergence |-> Entry(c, convergence_t2)]>>
       ELSE <<>>

\* 1. Tip-edge fusion: the events one key of matches contributes (0 or 1)
TipEdgeFusionOf(c, t1_idx) ==
    LET t2_indices_list == Matches(c)[t1_idx]
        t2_idx == t2_indices_list[1]
        degree_t1 == actual_degree(c.df_t1, t1_idx)
        degree_t2 == actual_degree(c.df_t2, t2_idx)
        convergence_t2 == GetSignal(c.df_t2, t2_idx, "convergence_raw")
    IN IF /\ Len(t2_indices_list) = 1
          /\ degree_t1 = 1 /\ degree_t2 >= 3
          /\ (use_dynamics(c) => ~(convergence_t2 <= 0))
          /\ OneToOnePersists(c, Pos(c.df_t1, t1_idx), Pos(c.df_t2, t2_idx))
       THEN <<[position_t1 |-> Pos(c.df_t1, t1_idx),
                position_t2 |-> Pos(c.df_t2, t2_idx),
                degree_t1 |-> degree_t1,
                degree_t2 |-> degree_t2,
                timepoint_1 |-> c.df_t1.rows[t1_idx].time_point,
                timepoint_2 |-> c.df_t2.rows[t2_idx].time_point,
                convergence |-> Entry(c, convergence_t2)]>>
       ELSE <<>>

\* 2. Junction breakage: the events one key of matches contributes (0 or 1)
JunctionBreakageOf(c, t1_idx) ==
    LET t2_indices_list == Matches(c)[t1_idx]
        t2_idx == t2_indices_list[1]
        degree_t1 == actual_degree(c.df_t1, t1_idx)
        degree_t2 == actual_degree(c.df_t2, t2_idx)
        divergence_t1 == GetSignal(c.df_t1, t1_idx, "divergence_raw")
    IN IF /\ Len(t2_indices_list) = 1
          /\ ~(degree_t1 = 1 /\ degree_t2 >= 3)
          /\ degree_t1 >= 3 /\ degree_t2 = 1
          /\ (use_dynamics(c) => ~(divergence_t1 <= 0))
          /\ OneToOnePersists(c, Pos(c.df_t1, t1_idx), Pos(c.df_t2, t2_idx))
       THEN <<[position_t1 |-> Pos(c.df_t1, t1_idx),
                position_t2 |-> Pos(c.df_t2, t2_idx),
                degree_t1 |-> degree_t1,
                degree_t2 |-> degree_t2,
                timepoint_1 |-> c.df_t1.rows[t1_idx].time_point,
                timepoint_2 |-> c.df_t2.rows[t2_idx].time_point,
                divergence |-> Entry(c, divergence_t1)]>>
       ELSE <<>>

\* Unmatched nodes
disappeared_t1(c) == DOMAIN c.df_t1.rows \ matched_t1_indices(c)
appeared_t2(c) == DOMAIN c.df_t2.rows \ matched_t2_indices(c)

disappeared_tips(c) ==
    SortedSeq({idx \in disappeared_t1(c) : actual_degree(c.df_t1, idx) = 1})
appeared_tips(c) ==
    SortedSeq({idx \in appeared_t2(c) : actual_degree(c.df_t2, idx) = 1})
disappeared_junctions(c) ==
    SortedSeq({idx \in disappeared_t1(c) : actual_degree(c.df_t1, idx) = 3})
appeared_junctions(c) ==
    SortedSeq({idx \in appeared_t2(c) : actual_degree(c.df_t2, idx) = 3})

\* Tip-tip fusion within the threshold itself, not twice the threshold
TipTipFusionOf_single(c, idx1, idx2) ==
    LET pos1 == Pos(c.df_t1, idx1)
        pos2 == Pos(c.df_t1, idx2)
        divergence_1 == GetSignal(c.df_t1, idx1, "divergence_raw")
        divergence_2 == GetSignal(c.df_t1, idx2, "divergence_raw")
        tp == c.df_t1.rows[idx1].time_point
    IN IF /\ WithinDist(ScaledDist2(pos1, pos2, c.zs), c.threshold, c.zs)
          /\ (use_dynamics(c) => ~(divergence_1 <= 0 \/ divergence_2 <= 0))
          /\ (use_persistence(c) =>
                /\ (frames_before(c) # <<>> =>
                        ExistsBefore(c, pos1) /\ ExistsBefore(c, pos2))
                /\ (frames_after(c) # <<>> =>
                        AbsentAfter(c, pos1) /\ AbsentAfter(c, pos2)))
       THEN <<[tip1_position |-> pos1,
                tip2_position |-> pos2,
                distance |-> ScaledDist2(pos1, pos2, c.zs),
                timepoint_1 |-> tp,
                timepoint_2 |-> tp + 1,
                divergence_tip1 |-> Entry(c, divergence_1),
                divergence_tip2 |-> Entry(c, divergence_2)]>>
       ELSE <<>>

\* Tip-tip fusion that uses a tip once: the disappeared tips are paired off
\* in order, first with second, third with fourth
TipTipFusionOf_once(c, idx1, idx2) ==
    LET pos1 == Pos(c.df_t1, idx1)
        pos2 == Pos(c.df_t1, idx2)
        divergence_1 == GetSignal(c.df_t1, idx1, "divergence_raw")
        divergence_2 == GetSignal(c.df_t1, idx2, "divergence_raw")
        tp == c.df_t1.rows[idx1].time_point
        before(idx) == Cardinality({k \in Range(disappeared_tips(c)) : k < idx})
    IN IF /\ before(idx1) % 2 = 0 /\ before(idx2) = before(idx1) + 1
          /\ WithinDist(ScaledDist2(pos1, pos2, c.zs), c.threshold * 2, c.zs)
          /\ (use_dynamics(c) => ~(divergence_1 <= 0 \/ divergence_2 <= 0))
          /\ (use_persistence(c) =>
                /\ (frames_before(c) # <<>> =>
                        ExistsBefore(c, pos1) /\ ExistsBefore(c, pos2))
                /\ (frames_after(c) # <<>> =>
                        AbsentAfter(c, pos1) /\ AbsentAfter(c, pos2)))
       THEN <<[tip1_position |-> pos1,
                tip2_position |-> pos2,
                distance |-> ScaledDist2(pos1, pos2, c.zs),
                timepoint_1 |-> tp,
                timepoint_2 |-> tp + 1,
                divergence_tip1 |-> Entry(c, divergence_1),
                divergence_tip2 |-> Entry(c, divergence_2)]>>
       ELSE <<>>

\* 3. Tip-tip fusion of two disappeared tips idx1, idx2 (0 or 1 event)
TipTipFusionOf(c, idx1, idx2) ==
    LET pos1 == Pos(c.df_t1, idx1)
        pos2 == Pos(c.df_t1, idx2)
        divergence_1 == GetSignal(c.df_t1, idx1, "divergence_raw")
        divergence_2 == GetSignal(c.df_t1, idx2, "divergence_raw")
        tp == c.df_t1.rows[idx1].time_point
    IN IF /\ WithinDist(ScaledDist2(pos1, pos2, c.zs), c.threshold * 2, c.zs)
          /\ (use_dynamics(c) => ~(divergence_1 <= 0 \/ divergence_2 <= 0))
          /\ (use_persistence(c) =>
                /\ (frames_before(c) # <<>> =>
                        ExistsBefore(c, pos1) /\ ExistsBefore(c, pos2))
                /\ (frames_after(c) # <<>> =>
                        AbsentAfter(c, pos1) /\ AbsentAfter(c, pos2)))
       THEN <<[tip1_position |-> pos1,
                tip2_position |-> pos2,
                distance |-> ScaledDist2(pos1, pos2, c.zs),
                timepoint_1 |-> tp,
                timepoint_2 |-> tp + 1,
                divergence_tip1 |-> Entry(c, divergence_1),
                divergence_tip2 |-> Entry(c, divergence_2)]>>
       ELSE <<>>

\* 4. Tip-tip fission of two appeared tips idx1, idx2 (0 or 1 event)
TipTipFissionOf(c, idx1, idx2) ==
    LET pos1 == Pos(c.df_t2, idx1)
        pos2 == Pos(c.df_t2, idx2)
        convergence_1 == GetSignal(c.df_t2, idx1, "convergence_raw")
        convergence_2 == GetSignal(c.df_t2, idx2, "convergence_raw")
        tp == c.df_t2.rows[idx1].time_point
    IN IF /\ WithinDist(ScaledDist2(pos1, pos2, c.zs), c.threshold * 2, c.zs)
          /\ (use_dynamics(c) => ~(convergence_1 <= 0 /\ convergence_2 <= 0))
          /\ (use_persistence(c) =>
                /\ (frames_before(c) # <<>> =>
                        AbsentBefore(c, pos1) /\ AbsentBefore(c, pos2))
                /\ (frames_after(c) # <<>> =>
                        ExistsAfter(c, pos1) /\ ExistsAfter(c, pos2)))
       THEN <<[tip1_position |-> pos1,
                tip2_position |-> pos2,
                distance |-> ScaledDist2(pos1, pos2, c.zs),
                timepoint_1 |-> tp - 1,
                timepoint_2 |-> tp,
                convergence_tip1 |-> Entry(c, convergence_1),
                convergence_tip2 |-> Entry(c, convergence_2)]>>
       ELSE <<>>

\* 5. Extrusion of an appeared tip and an appeared junction (0 or 1 event)
ExtrusionOf(c, tip_idx, junction_idx) ==
    LET tip_pos == Pos(c.df_t2, tip_idx)
        junction_pos == Pos(c.df_t2, junction_idx)
        convergence_tip == GetSignal(c.df_t2, tip_idx, "convergence_raw")
        convergence_junction == GetSignal(c.df_t2, junction_idx, "convergence_raw")
        tp == c.df_t2.rows[tip_idx].time_point
    IN IF /\ WithinDist(ScaledDist2(tip_pos, junction_pos, c.zs), c.threshold, c.zs)
          /\ are_nodes_adjacent(c.df_t2, tip_idx, junction_idx)
          /\ (use_dynamics(c) => ~(convergence_tip >= 0 /\ convergence_junction >= 0))
          /\ (use_persistence(c) =>
                /\ (frames_before(c) # <<>> => AbsentBefore(c, junction_pos))
                /\ (frames_after(c) # <<>> => ExistsAfter(c, junction_pos)))
       THEN <<[tip_position |-> tip_pos,
                junction_position |-> junction_pos,
                distance |-> ScaledDist2(tip_pos, junction_pos, c.zs),
                timepoint_1 |-> tp - 1,
                timepoint_2 |-> tp,
                convergence_tip |-> Entry(c, convergence_tip),
                convergence_junction |-> Entry(c, convergence_junction)]>>
       ELSE <<>>

\* Retraction that asks the persistence of the tip as well as the junction's
RetractionOf_tip_checked(c, tip_idx, junction_idx) ==
    LET tip_pos == Pos(c.df_t1, tip_idx)
        junction_pos == Pos(c.df_t1, junction_idx)
        divergence_tip == GetSignal(c.df_t1, tip_idx, "divergence_raw")
        divergence_junction == GetSignal(c.df_t1, junction_idx, "divergence_raw")
        tp == c.df_t1.rows[tip_idx].time_point
    IN IF /\ WithinDist(ScaledDist2(tip_pos, junction_pos, c.zs), c.threshold, c.zs)
          /\ are_nodes_adjacent(c.df_t1, tip_idx, junction_idx)
          /\ (use_dynamics(c) => ~(divergence_tip <= 0 /\ divergence_junction <= 0))
          /\ (use_persistence(c) =>
                /\ (frames_before(c) # <<>> =>
                        ExistsBefore(c, junction_pos) /\ ExistsBefore(c, tip_pos))
                /\ (frames_after(c) # <<>> =>
                        AbsentAfter(c, junction_pos) /\ AbsentAfter(c, tip_pos)))
       THEN <<[tip_position |-> tip_pos,
                junction_position |-> junction_pos,
                distance |-> ScaledDist2(tip_pos, junction_pos, c.zs),
                timepoint_1 |-> tp,
                timepoint_2 |-> tp + 1,
                divergence_tip |-> Entry(c, divergence_tip),
                divergence_junction |-> Entry(c, divergence_junction)]>>
       ELSE <<>>

\* 6. Retraction of a disappeared tip and a disappeared junction (0 or 1 event)
RetractionOf(c, tip_idx, junction_idx) ==
    LET tip_pos == Pos(c.df_t1, tip_idx)
        junction_pos == Pos(c.df_t1, junction_idx)
        divergence_tip == GetSignal(c.df_t1, tip_idx, "divergence_raw")
        divergence_junction == GetSignal(c.df_t1, junction_idx, "divergence_raw")
        tp == c.df_t1.rows[tip_idx].time_point
    IN IF /\ WithinDist(ScaledDist2(tip_pos, junction_pos, c.zs), c.threshold, c.zs)
          /\ are_nodes_adjacent(c.df_t1, tip_idx, junction_idx)
          /\ (use_dynamics(c) => ~(divergence_tip <= 0 /\ divergence_junction <= 0))
          /\ (use_persistence(c) =>
                /\ (frames_before(c) # <<>> => ExistsBefore(c, junction_pos))
                /\ (frames_after(c) # <<>> => AbsentAfter(c, junction_pos)))
       THEN <<[tip_position |-> tip_pos,
                junction_position |-> junction_pos,
                distance |-> ScaledDist2(tip_pos, junction_pos, c.zs),
                timepoint_1 |-> tp,
                timepoint_2 |-> tp + 1,
                divergence_tip |-> Entry(c, divergence_tip),
                divergence_junction |-> Entry(c, divergence_junction)]>>
       ELSE <<>>

\* for i, idx1 in enumerate(tips): for idx2 in tips[i+1:]: ...
OverPairs(tips, Of(_, _)) ==
    Flatten([a \in DOMAIN tips |->
        Flatten([b \in DOMAIN tips |->
            IF b > a THEN Of(tips[a], tips[b]) ELSE <<>>])])

\* for tip_idx in tips: for junction_idx in junctions: ...
OverProduct(tips, junctions, Of(_, _)) ==
    Flatten([a \in DOMAIN tips |->
        Flatten([b \in DOMAIN junctions |-> Of(tips[a], junctions[b])])])

\* classify_network_events: the six event lists.  An event's 'distance' is
\* held squared (see the conventions).
classify_network_events(c) ==
    LET keys == SortedSeq(DOMAIN Matches(c))
    IN [tip_edge_fusion |->
            Flatten([k \in DOMAIN keys |-> TipEdgeFusionOf(c, keys[k])]),
        junction_breakage |->
            Flatten([k \in DOMAIN keys |-> JunctionBreakageOf(c, keys[k])]),
        tip_tip_fusion |->
            OverPairs(disappeared_tips(c), LAMBDA i, j : TipTipFusionOf(c, i, j)),
        tip_tip_fission |->
            OverPairs(appeared_tips(c), LAMBDA i, j : TipTipFissionOf(c, i, j)),
        extrusion |->
            OverProduct(appeared_tips(c), appeared_junctions(c),
                        LAMBDA i, j : ExtrusionOf(c, i, j)),
        retraction |->
            OverProduct(disappeared_tips(c), disappeared_junctions(c),
                        LAMBDA i, j : RetractionOf(c, i, j))]

\* classify_network_events raises: len() of an adjacency value that parsed
\* to a number, when the degrees are computed, or the adjacency test of a
\* tip and a junction within the threshold on a value that parsed to a
\* string
ClassifyRaises(c) ==
    \/ \E k \in DOMAIN c.df_t1.rows : DegreeRaises(c.df_t1.rows[k].adjacencies)
    \/ \E k \in DOMAIN c.df_t2.rows : DegreeRaises(c.df_t2.rows[k].adjacencies)
    \/ \E i \in Range(appeared_tips(c)), j \in Range(appeared_junctions(c)) :
          /\ WithinDist(ScaledDist2(Pos(c.df_t2, i), Pos(c.df_t2, j), c.zs),
                        c.threshold, c.zs)
          /\ AdjacentRaises(c.df_t2, i, j)
    \/ \E i \in Range(disappeared_tips(c)), j \in Range(disappeared_junctions(c)) :
          /\ WithinDist(ScaledDist2(Pos(c.df_t1, i), Pos(c.df_t1, j), c.zs),
                        c.threshold, c.zs)
          /\ AdjacentRaises(c.df_t1, i, j)

NoEvents ==
    [tip_edge_fusion |-> <<>>, junction_breakage |-> <<>>,
     tip_tip_fusion |-> <<>>, tip_tip_fission |-> <<>>,
     extrusion |-> <<>>, retraction |-> <<>>]

Categories == {"tip_edge_fusion", "junction_breakage", "tip_tip_fusion",
               "tip_tip_fission", "extrusion", "retraction"}

--------------------------------------------------------------------------
(* Inputs of a direct call on two frames                                  *)

\* The most rows of the frames of one call or one series, taken together
MaxRows == 3

RECURSIVE SetToSeq(_)
SetToSeq(S) ==
    IF S = {} THEN <<>>
    ELSE LET x == CHOOSE y \in S : TRUE IN <<x>> \o SetToSeq(S \ {x})

\* The cells of one row: position, adjacencies, the two signals and the
\* component id
CellsIn(positions, adjs, signals, components) ==
    SetToSeq({[pos |-> p, adjacencies |-> a,
               convergence_raw |-> sg[1], divergence_raw |-> sg[2],
               component_num |-> cn] :
              p \in positions, a \in adjs, sg \in signals, cn \in components})

Cells(positions, adjs, signals) == CellsIn(positions, adjs, signals, {1})

\* The DataFrame of time point tp whose rows hold the given cells; the node
\* id of a row is its (1-based) place in the frame
MakeFrame(columns, tp, cells) ==
    [columns |-> columns,
     rows |-> [k \in DOMAIN cells |->
                 [node |-> k, pos_x |-> cells[k].pos[1], pos_y |-> cells[k].pos[2],
                  pos_z |-> cells[k].pos[3], adjacencies |-> cells[k].adjacencies,
                  convergence_raw |-> cells[k].convergence_raw,
                  divergence_raw |-> cells[k].divergence_raw,
                  component_num |-> cells[k].component_num,
                  time_point |-> tp]],
     pos_dtype |-> "float64"]

\* The frame with its position columns of the given dtype
AsType(df, dtype) == [df EXCEPT !.pos_dtype = dtype]

\* The frames of m rows drawn from the cells, up to the order of the rows
Frames(columns, tp, cells, m) ==
    {MakeFrame(columns, tp, [k \in 1..m |-> cells[f[k]]]) :
        f \in {g \in [1..m -> DOMAIN cells] :
                  \A k \in 1..(m - 1) : g[k] <= g[k + 1]}}

PA == <<0, 0, 0>>
PB == <<1, 0, 0>>
PD == <<0, 0, 1>>
PE == <<3, 0, 0>>
PC == <<2, 0, 0>>
PF == <<0, 1, 0>>

Tip == AdjStr(<<9>>)
TipTo2 == AdjStr(<<2>>)
Junction == AdjStr(<<7, 8, 9>>)
JunctionTo12 == AdjStr(<<1, 2, 9>>)

\* z_scale 1, 2 and the default 0.292 / 0.11 of app_state
ZScales == {<<1, 1>>, <<2, 1>>, <<146, 55>>}

NoSignal == {<<0, 0>>}

\* Families of inputs: the cells of the t1 rows, of the t2 rows, the columns
\* of both frames, the thresholds and the z scales
Geometry ==
    [cells1 |-> Cells({PA, PB, PD, PE}, {Tip, Junction}, NoSignal),
     cells2 |-> Cells({PA, PB, PD, PE}, {Tip, Junction}, NoSignal),
     columns1 |-> BaseColumns, columns2 |-> BaseColumns,
     thresholds |-> {1, 2}, zscales |-> ZScales,
     dtypes |-> {"float64", "int64"}]

Degrees ==
    LET adjs == {AdjStr(<<>>), Tip, AdjList(<<8, 9>>), Junction,
                 AdjList(<<6, 7, 8, 9>>)}
    IN [cells1 |-> Cells({PA, PB}, adjs, NoSignal),
        cells2 |-> Cells({PA, PB}, adjs, NoSignal),
        columns1 |-> BaseColumns, columns2 |-> BaseColumns,
        thresholds |-> {1}, zscales |-> {<<1, 1>>},
        dtypes |-> {"int64"}]

Adjacency ==
    LET adjs == {TipTo2, Tip, JunctionTo12, Junction, AdjStr(<<1, 2, 8, 9>>)}
    IN [rich |-> Cells({PA, PB, PE}, adjs, NoSignal),
        poor |-> Cells({PA, PB, PE}, {Tip}, NoSignal)]

Appearing ==
    [cells1 |-> Adjacency.poor, cells2 |-> Adjacency.rich,
     columns1 |-> BaseColumns, columns2 |-> BaseColumns,
     thresholds |-> {1}, zscales |-> {<<1, 1>>},
     dtypes |-> {"int64"}]

Disappearing ==
    [cells1 |-> Adjacency.rich, cells2 |-> Adjacency.poor,
     columns1 |-> BaseColumns, columns2 |-> BaseColumns,
     thresholds |-> {1}, zscales |-> {<<1, 1>>},
     dtypes |-> {"int64"}]

Signals ==
    LET sg == {<<-1, 1>>, <<0, 0>>, <<1, -1>>}
    IN [cells1 |-> Cells({PA, PE}, {Tip, Junction}, sg),
        cells2 |-> Cells({PA, PE}, {Tip, Junction}, sg),
        columns1 |-> BaseColumns \cup DynamicsColumns,
        columns2 |-> BaseColumns \cup DynamicsColumns,
        thresholds |-> {1}, zscales |-> {<<1, 1>>},
        dtypes |-> {"int64"}]

\* Adjacency values that are no list: the strings "5", "junk", "'a'",
\* "'abc'", "(2, 3, 4)" and "{1: 2}", and a missing value
AdjNumber == [kind |-> "str_int", items |-> <<>>]
AdjGarbage == [kind |-> "str_garbage", items |-> <<>>]
AdjQuoted(chars) == [kind |-> "str_str", items |-> chars]
AdjTuple(items) == [kind |-> "str_tuple", items |-> items]
AdjDict(keys) == [kind |-> "str_dict", items |-> keys]
AdjNan == [kind |-> "nan", items |-> <<>>]

Malformed ==
    LET adjs == {Tip, Junction, AdjNumber, AdjGarbage, AdjQuoted(<<97>>),
                 AdjQuoted(<<97, 98, 99>>), AdjTuple(<<2, 3, 4>>),
                 AdjDict(<<1>>), AdjNan}
    IN [cells1 |-> Cells({PA}, adjs, NoSignal),
        cells2 |-> Cells({PA}, adjs, NoSignal),
        columns1 |-> BaseColumns, columns2 |-> BaseColumns,
        thresholds |-> {1}, zscales |-> {<<1, 1>>},
        dtypes |-> {"int64"}]

\* Frames that carry some of the signal columns: t2 alone carries both, or
\* both frames carry convergence_raw and no divergence_raw
SignalsInT2 ==
    LET sg == {<<0, 0>>, <<1, 1>>}
    IN [cells1 |-> Cells({PA}, {Tip, Junction}, sg),
        cells2 |-> Cells({PA}, {Tip, Junction}, sg),
        columns1 |-> BaseColumns,
        columns2 |-> BaseColumns \cup DynamicsColumns,
        thresholds |-> {1}, zscales |-> {<<1, 1>>},
        dtypes |-> {"int64"}]

ConvergenceOnly ==
    LET sg == {<<0, 0>>, <<1, 1>>}
    IN [cells1 |-> Cells({PA}, {Tip, Junction}, sg),
        cells2 |-> Cells({PA}, {Tip, Junction}, sg),
        columns1 |-> BaseColumns \cup {"convergence_raw"},
        columns2 |-> BaseColumns \cup {"convergence_raw"},
        thresholds |-> {1}, zscales |-> {<<1, 1>>},
        dtypes |-> {"int64"}]

PairFamilies == {Geometry, Degrees, Appearing, Disappearing, Signals, Malformed,
                 SignalsInT2, ConvergenceOnly}

\* all_events before the first transition
NoAllEvents ==
    [tip_edge_fusion_events |-> <<>>, junction_breakage_events |-> <<>>,
     tip_tip_fusion_events |-> <<>>, tip_tip_fission_events |-> <<>>,
     extrusion_events |-> <<>>, retraction_events |-> <<>>,
     summary_statistics |-> <<>>]

\* The time-series driver not running
SeriesIdle ==
    /\ loop_i = 0
    /\ all_events = NoAllEvents
    /\ classified = <<>>
    /\ reconciliation = None
    /\ inferred_df_total = None
    /\ inferred_df_discrepancy = None
    /\ priors_passed = <<>>
    /\ first_run = None

\* No direct call of calculate_expected_topology_changes
ExpectIdle ==
    /\ events_dict = None
    /\ expected = None

\* No event file, no layer and no manual correction
CorrectIdle ==
    /\ event_files = <<>>
    /\ events_layer = <<>>
    /\ current_timepoint = 0
    /\ modifications = <<>>
    /\ calls = <<>>
    /\ before_call = <<>>

\* No direct call of infer_events_from_topology_change
InferIdle ==
    /\ delta_tips = 0 /\ delta_junctions = 0
    /\ detected_events = None
    /\ method = "minimize_discrepancy"
    /\ inference = None
    /\ solver_steps = <<>>

--------------------------------------------------------------------------
(* A direct call of classify_network_events on two frames                 *)

InitPair ==
    /\ pc = "call"
    /\ \E fam \in PairFamilies, n1 \in 0..MaxRows :
        /\ \E dtype \in fam.dtypes :
              /\ \E f \in Frames(fam.columns1, 1, fam.cells1, n1) :
                    df_t1 = AsType(f, dtype)
              /\ \E n2 \in 0..(MaxRows - n1) :
                    \E f \in Frames(fam.columns2, 2, fam.cells2, n2) :
                        df_t2 = AsType(f, dtype)
        /\ distance_threshold \in fam.thresholds
        /\ z_scale \in fam.zscales
    /\ combined_df = NoFrame
    /\ persistence_window = 1
    /\ matches = EmptyDict
    /\ events = NoEvents
    /\ SeriesIdle
    /\ ExpectIdle
    /\ InferIdle
    /\ CorrectIdle

\* classify_network_events(df_t1, df_t2, distance_threshold, z_scale)
ClassifyPair ==
    /\ pc = "call"
    /\ LET c == Call(df_t1, df_t2, distance_threshold, z_scale, combined_df,
                     persistence_window)
       IN IF ClassifyRaises(c)
          THEN /\ pc' = "raised"
               /\ UNCHANGED <<matches, events>>
          ELSE /\ pc' = "done"
               /\ matches' = match_nodes_spatially(df_t1, df_t2,
                                                   distance_threshold, z_scale)
               /\ events' = classify_network_events(c)
    /\ UNCHANGED <<df_t1, df_t2, combined_df, distance_threshold, z_scale,
                   persistence_window>>
    /\ UNCHANGED <<seriesVars, expectVars, inferVars, correctVars>>

Next == ClassifyPair

Spec == InitPair /\ [][Next]_vars

--------------------------------------------------------------------------
(* What the claims say of a call, stated from the frames and the match    *)
(* relation                                                               *)

Sq(x) == x * x

RowPos(r) == <<r.pos_x, r.pos_y, r.pos_z>>

\* den^2 times the square of the Euclidean distance of p and q after their
\* z coordinates are multiplied by z_scale = num/den
ClaimDist2(p, q) ==
    Sq(z_scale[2]) * (Sq(p[1] - q[1]) + Sq(p[2] - q[2]))
    + Sq(z_scale[1] * (p[3] - q[3]))

ClaimWithin(p, q, limit) == ClaimDist2(p, q) <= Sq(z_scale[2] * limit)

\* The t2 rows within distance_threshold of t1 row i
Near(d1, d2, i) ==
    {j \in DOMAIN d2.rows :
        ClaimWithin(RowPos(d1.rows[i]), RowPos(d2.rows[j]), distance_threshold)}

\* The number of neighbours a row lists
ListLen(r) == Len(r.adjacencies.items)

\* Row r lists node id n as a neighbour
Lists(r, n) == \E k \in DOMAIN r.adjacencies.items : r.adjacencies.items[k] = n

\* The t2 rows the match relation of the call gives t1 row i
MatchedTo(i) == IF i \in DOMAIN matches THEN Range(matches[i]) ELSE {}

\* The t1 rows matched to no t2 row and the t2 rows no t1 row is matched to
Disappeared(d1, d2) == {i \in DOMAIN d1.rows : MatchedTo(i) = {}}
Appeared(d1, d2) ==
    {j \in DOMAIN d2.rows : \A i \in DOMAIN d1.rows : j \notin MatchedTo(i)}

\* The t1 rows with exactly one t2 match, and that row
OneToOne(d1, d2) == {i \in DOMAIN d1.rows : Cardinality(MatchedTo(i)) = 1}
Partner(d1, d2, i) == CHOOSE j \in MatchedTo(i) : TRUE

NoDynamics == (df_t1.columns \cup df_t2.columns) \cap DynamicsColumns = {}
BothDynamics ==
    DynamicsColumns \subseteq df_t1.columns /\ DynamicsColumns \subseteq df_t2.columns

\* The list s holds, as a bag, exactly one F(i) for each i of I
SameBag(s, I, F(_)) ==
    \A e \in Range(s) \cup {F(i) : i \in I} :
        Count(s, e) = Cardinality({i \in I : F(i) = e})

\* C1: match_nodes_spatially returns, for every t1 row, exactly the t2 rows
\* whose z-scaled distance is <= threshold (inclusive, one-to-many), and a
\* t1 row with no such t2 row is not a key.
C1_MatchRelation ==
    pc = "done" =>
        /\ DOMAIN matches \subseteq DOMAIN df_t1.rows
        /\ \A i \in DOMAIN df_t1.rows :
              LET near == Near(df_t1, df_t2, i)
              IN IF near = {} THEN i \notin DOMAIN matches
                 ELSE /\ i \in DOMAIN matches
                      /\ Range(matches[i]) = near
                      /\ Len(matches[i]) = Cardinality(near)

\* A t1 row matched to two t2 rows, one of them at exactly the threshold
\* through a scaled z difference
C1_Witness ==
    /\ pc = "done"
    /\ z_scale[1] # z_scale[2]
    /\ \E i \in DOMAIN matches :
          /\ Len(matches[i]) = 2
          /\ \E j \in Range(matches[i]) :
                /\ df_t1.rows[i].pos_z # df_t2.rows[j].pos_z
                /\ ClaimDist2(RowPos(df_t1.rows[i]), RowPos(df_t2.rows[j]))
                       = Sq(z_scale[2] * distance_threshold)

\* The position and degree entries of the one-to-one events of a list
ShownOneToOne(s) ==
    [k \in DOMAIN s |->
        [position_t1 |-> s[k].position_t1, position_t2 |-> s[k].position_t2,
         degree_t1 |-> s[k].degree_t1, degree_t2 |-> s[k].degree_t2]]

\* The same entries as the frames give them for t1 row i and its partner
SeenOneToOne(i) ==
    LET j == Partner(df_t1, df_t2, i)
    IN [position_t1 |-> RowPos(df_t1.rows[i]), position_t2 |-> RowPos(df_t2.rows[j]),
        degree_t1 |-> ListLen(df_t1.rows[i]), degree_t2 |-> ListLen(df_t2.rows[j])]

FusionCandidates ==
    {i \in OneToOne(df_t1, df_t2) :
        SeenOneToOne(i).degree_t1 = 1 /\ SeenOneToOne(i).degree_t2 >= 3}
BreakageCandidates ==
    {i \in OneToOne(df_t1, df_t2) :
        SeenOneToOne(i).degree_t1 >= 3 /\ SeenOneToOne(i).degree_t2 = 1}

\* C2: with no dynamics columns and no persistence, each t1 row with exactly
\* one t2 match yields exactly one TipEdgeFusion event (with its two degrees)
\* when the degree goes 1 -> >= 3, exactly one JunctionBreakage event when it
\* goes >= 3 -> 1, and no event otherwise; the degrees are the lengths of the
\* adjacency lists.
C2_DegreeTransitions ==
    (pc = "done" /\ NoDynamics) =>
        /\ SameBag(ShownOneToOne(events.tip_edge_fusion), FusionCandidates,
                   SeenOneToOne)
        /\ SameBag(ShownOneToOne(events.junction_breakage), BreakageCandidates,
                   SeenOneToOne)

\* A 1 -> 3 pair that yields the only event beside a 3 -> 3 pair that yields none
C2_Witness ==
    /\ pc = "done" /\ NoDynamics
    /\ Len(events.tip_edge_fusion) = 1
    /\ events.tip_edge_fusion[1].degree_t1 = 1
    /\ events.tip_edge_fusion[1].degree_t2 = 3
    /\ Len(events.junction_breakage) = 0
    /\ \E i \in OneToOne(df_t1, df_t2) :
          SeenOneToOne(i).degree_t1 = 3 /\ SeenOneToOne(i).degree_t2 = 3

\* The two ends (unordered) and the distance of the tip-tip events of a list
ShownTipTip(s) ==
    [k \in DOMAIN s |->
        [ends |-> {s[k].tip1_position, s[k].tip2_position},
         distance |-> s[k].distance]]

\* The pairs i < j of the rows of pool that are tips of frame d within twice
\* the threshold, and what an event of such a pair must show
TipPairs(d, pool) ==
    {pr \in pool \X pool :
        /\ pr[1] < pr[2]
        /\ ListLen(d.rows[pr[1]]) = 1 /\ ListLen(d.rows[pr[2]]) = 1
        /\ ClaimWithin(RowPos(d.rows[pr[1]]), RowPos(d.rows[pr[2]]),
                       2 * distance_threshold)}

\* C3: with no gating, the TipTipFusion events are exactly the unordered
\* pairs of distinct disappeared degree-1 rows within 2 * threshold (scaled),
\* one event per pair whose distance is that scaled distance; the
\* TipTipFission events are the same over the appeared degree-1 rows.
C3_TipTipPairs ==
    (pc = "done" /\ NoDynamics) =>
        LET seen1(pr) ==
                [ends |-> {RowPos(df_t1.rows[pr[1]]), RowPos(df_t1.rows[pr[2]])},
                 distance |-> ClaimDist2(RowPos(df_t1.rows[pr[1]]),
                                         RowPos(df_t1.rows[pr[2]]))]
            seen2(pr) ==
                [ends |-> {RowPos(df_t2.rows[pr[1]]), RowPos(df_t2.rows[pr[2]])},
                 distance |-> ClaimDist2(RowPos(df_t2.rows[pr[1]]),
                                         RowPos(df_t2.rows[pr[2]]))]
        IN /\ SameBag(ShownTipTip(events.tip_tip_fusion),
                      TipPairs(df_t1, Disappeared(df_t1, df_t2)), seen1)
           /\ SameBag(ShownTipTip(events.tip_tip_fission),
                      TipPairs(df_t2, Appeared(df_t1, df_t2)), seen2)

\* Three disappeared tips of which exactly one pair is within twice the
\* threshold: at exactly that distance, through a scaled z difference
C3_Witness ==
    /\ pc = "done" /\ NoDynamics
    /\ z_scale[1] # z_scale[2]
    /\ Cardinality({i \in Disappeared(df_t1, df_t2) : ListLen(df_t1.rows[i]) = 1}) = 3
    /\ Len(events.tip_tip_fusion) = 1
    /\ events.tip_tip_fusion[1].tip1_position[3] # events.tip_tip_fusion[1].tip2_position[3]
    /\ events.tip_tip_fusion[1].distance = Sq(z_scale[2] * 2 * distance_threshold)

\* The two positions and the distance of the extrusion / retraction events
ShownTipJunction(s) ==
    [k \in DOMAIN s |->
        [tip_position |-> s[k].tip_position,
         junction_position |-> s[k].junction_position,
         distance |-> s[k].distance]]

\* The (tip, junction) pairs of the rows of pool of frame d: degree 1 and
\* degree exactly 3, within the threshold, one listing the other's node id
TipJunctionPairs(d, pool) ==
    {pr \in pool \X pool :
        /\ ListLen(d.rows[pr[1]]) = 1 /\ ListLen(d.rows[pr[2]]) = 3
        /\ ClaimWithin(RowPos(d.rows[pr[1]]), RowPos(d.rows[pr[2]]),
                       distance_threshold)
        /\ \/ Lists(d.rows[pr[1]], d.rows[pr[2]].node)
           \/ Lists(d.rows[pr[2]], d.rows[pr[1]].node)}

\* C4: with no gating, an Extrusion event is emitted for a (tip, junction)
\* pair iff both are appeared t2 rows, the tip has degree 1, the junction
\* degree exactly 3, their scaled distance is <= threshold and one lists the
\* other's node id in frame t2; Retraction is the same over the disappeared
\* t1 rows, with the adjacency of frame t1.
C4_ExtrusionRetraction ==
    (pc = "done" /\ NoDynamics) =>
        LET seen1(pr) ==
                [tip_position |-> RowPos(df_t1.rows[pr[1]]),
                 junction_position |-> RowPos(df_t1.rows[pr[2]]),
                 distance |-> ClaimDist2(RowPos(df_t1.rows[pr[1]]),
                                         RowPos(df_t1.rows[pr[2]]))]
            seen2(pr) ==
                [tip_position |-> RowPos(df_t2.rows[pr[1]]),
                 junction_position |-> RowPos(df_t2.rows[pr[2]]),
                 distance |-> ClaimDist2(RowPos(df_t2.rows[pr[1]]),
                                         RowPos(df_t2.rows[pr[2]]))]
        IN /\ SameBag(ShownTipJunction(events.extrusion),
                      TipJunctionPairs(df_t2, Appeared(df_t1, df_t2)), seen2)
           /\ SameBag(ShownTipJunction(events.retraction),
                      TipJunctionPairs(df_t1, Disappeared(df_t1, df_t2)), seen1)

\* One extrusion, of a tip that does not list the junction while the junction
\* lists the tip, beside an appeared junction near the same tip that is not
\* adjacent to it and yields nothing
C4_Witness ==
    /\ pc = "done" /\ NoDynamics
    /\ Len(events.extrusion) = 1
    /\ \E t, j, o \in Appeared(df_t1, df_t2) :
          /\ <<t, j>> \in TipJunctionPairs(df_t2, Appeared(df_t1, df_t2))
          /\ ~Lists(df_t2.rows[t], df_t2.rows[j].node)
          /\ o # j /\ ListLen(df_t2.rows[o]) = 3
          /\ ClaimWithin(RowPos(df_t2.rows[t]), RowPos(df_t2.rows[o]),
                         distance_threshold)
          /\ <<t, o>> \notin TipJunctionPairs(df_t2, Appeared(df_t1, df_t2))

ConvergenceOfPartner(i) == df_t2.rows[Partner(df_t1, df_t2, i)].convergence_raw
DivergenceOf(i) == df_t1.rows[i].divergence_raw

\* The positions, degrees and recorded signal of the events of a list
ShownFusion(s) ==
    [k \in DOMAIN s |->
        [position_t1 |-> s[k].position_t1, position_t2 |-> s[k].position_t2,
         degree_t1 |-> s[k].degree_t1, degree_t2 |-> s[k].degree_t2,
         signal |-> s[k].convergence]]
ShownBreakage(s) ==
    [k \in DOMAIN s |->
        [position_t1 |-> s[k].position_t1, position_t2 |-> s[k].position_t2,
         degree_t1 |-> s[k].degree_t1, degree_t2 |-> s[k].degree_t2,
         signal |-> s[k].divergence]]

\* C5: when both frames carry both signal columns, a one-to-one 1 -> >= 3
\* pair whose t2 row has convergence_raw <= 0 yields no TipEdgeFusion event
\* and a one-to-one >= 3 -> 1 pair whose t1 row has divergence_raw <= 0 no
\* JunctionBreakage event: the lists hold one event for each passing
\* candidate and nothing else, so the discarded ones are in no list or count.
C5_SignGate ==
    (pc = "done" /\ BothDynamics) =>
        LET seenF(i) == [position_t1 |-> SeenOneToOne(i).position_t1,
                         position_t2 |-> SeenOneToOne(i).position_t2,
                         degree_t1 |-> SeenOneToOne(i).degree_t1,
                         degree_t2 |-> SeenOneToOne(i).degree_t2,
                         signal |-> <<ConvergenceOfPartner(i)>>]
            seenB(i) == [position_t1 |-> SeenOneToOne(i).position_t1,
                         position_t2 |-> SeenOneToOne(i).position_t2,
                         degree_t1 |-> SeenOneToOne(i).degree_t1,
                         degree_t2 |-> SeenOneToOne(i).degree_t2,
                         signal |-> <<DivergenceOf(i)>>]
        IN /\ SameBag(ShownFusion(events.tip_edge_fusion),
                      {i \in FusionCandidates : ConvergenceOfPartner(i) > 0}, seenF)
           /\ SameBag(ShownBreakage(events.junction_breakage),
                      {i \in BreakageCandidates : DivergenceOf(i) > 0}, seenB)

\* A fusion candidate discarded for a convergence of exactly 0: the list of
\* tip-edge fusions stays empty
C5_Witness ==
    /\ pc = "done" /\ BothDynamics
    /\ \E i \in FusionCandidates : ConvergenceOfPartner(i) = 0
    /\ Len(events.tip_edge_fusion) = 0

--------------------------------------------------------------------------
(* TopologyAggregator (topology_reconciliation.py)                        *)

\* calculate_degree_from_adjacencies of topology_reconciliation: the length
\* of the literal of a string, of a list, and 0 for anything else and for
\* whatever raises
reconciliation_calculate_degree_from_adjacencies(adj_str) ==
    CASE adj_str.kind = "str_list"  -> Len(adj_str.items)
      [] adj_str.kind = "str_tuple" -> Len(adj_str.items)
      [] adj_str.kind = "str_str"   -> Len(adj_str.items)
      [] adj_str.kind = "str_dict"  -> Len(adj_str.items)
      [] adj_str.kind = "list"      -> Len(adj_str.items)
      [] OTHER                      -> 0

\* calculate_topology_metrics that takes only degree 3 for a junction
reconciliation_calculate_topology_metrics_exact3(df) ==
    LET degree(k) ==
            reconciliation_calculate_degree_from_adjacencies(df.rows[k].adjacencies)
    IN [num_tips |-> Cardinality({k \in DOMAIN df.rows : degree(k) = 1}),
        num_junctions |-> Cardinality({k \in DOMAIN df.rows : degree(k) = 3}),
        num_components |->
            IF "component_num" \in df.columns
            THEN Cardinality({df.rows[k].component_num : k \in DOMAIN df.rows})
            ELSE 0]

\* calculate_topology_metrics of topology_reconciliation
reconciliation_calculate_topology_metrics(df) ==
    IF Empty(df)
    THEN [num_tips |-> 0, num_junctions |-> 0, num_components |-> 0]
    ELSE LET degree(k) ==
                 reconciliation_calculate_degree_from_adjacencies(df.rows[k].adjacencies)
         IN [num_tips |-> Cardinality({k \in DOMAIN df.rows : degree(k) = 1}),
             num_junctions |-> Cardinality({k \in DOMAIN df.rows : degree(k) >= 3}),
             num_components |->
                 IF "component_num" \in df.columns
                 THEN Cardinality({df.rows[k].component_num : k \in DOMAIN df.rows})
                 ELSE 0]

\* calculate_actual_topology_changes that compares every time point after
\* the first with the first one
calculate_actual_topology_changes_from_first(cdf) ==
    LET time_points == TimePoints(cdf)
    IN [n \in 1..(Len(time_points) - 1) |->
          LET t1 == time_points[1]
              t2 == time_points[n + 1]
              metrics_t1 == reconciliation_calculate_topology_metrics(FrameAt(cdf, t1))
              metrics_t2 == reconciliation_calculate_topology_metrics(FrameAt(cdf, t2))
          IN [transition |-> <<t1, t2>>,
              time_point_1 |-> t1,
              time_point_2 |-> t2,
              tips_t1 |-> metrics_t1.num_tips,
              tips_t2 |-> metrics_t2.num_tips,
              delta_tips |-> metrics_t2.num_tips - metrics_t1.num_tips,
              junctions_t1 |-> metrics_t1.num_junctions,
              junctions_t2 |-> metrics_t2.num_junctions,
              delta_junctions |-> metrics_t2.num_junctions - metrics_t1.num_junctions,
              components_t1 |-> metrics_t1.num_components,
              components_t2 |-> metrics_t2.num_components,
              delta_components |->
                  metrics_t2.num_components - metrics_t1.num_components]]

\* calculate_actual_topology_changes: one row per pair of consecutive
\* time points; 'transition' is held as the pair itself
calculate_actual_topology_changes(cdf) ==
    LET time_points == TimePoints(cdf)
    IN [n \in 1..(Len(time_points) - 1) |->
          LET t1 == time_points[n]
              t2 == time_points[n + 1]
              metrics_t1 == reconciliation_calculate_topology_metrics(FrameAt(cdf, t1))
              metrics_t2 == reconciliation_calculate_topology_metrics(FrameAt(cdf, t2))
          IN [transition |-> <<t1, t2>>,
              time_point_1 |-> t1,
              time_point_2 |-> t2,
              tips_t1 |-> metrics_t1.num_tips,
              tips_t2 |-> metrics_t2.num_tips,
              delta_tips |-> metrics_t2.num_tips - metrics_t1.num_tips,
              junctions_t1 |-> metrics_t1.num_junctions,
              junctions_t2 |-> metrics_t2.num_junctions,
              delta_junctions |-> metrics_t2.num_junctions - metrics_t1.num_junctions,
              components_t1 |-> metrics_t1.num_components,
              components_t2 |-> metrics_t2.num_components,
              delta_components |->
                  metrics_t2.num_components - metrics_t1.num_components]]

--------------------------------------------------------------------------
(* Reconciler (topology_reconciliation.py)                                *)

\* dict.get(key, default) on a dict held as a function of its keys
Get(dict, key, default) == IF key \in DOMAIN dict THEN dict[key] ELSE default

\* events_dict.get('summary_statistics', {}); the entry is held as a
\* sequence of length 0 or 1
StatsOf(dict) ==
    IF dict.summary_statistics = <<>> THEN EmptyDict ELSE dict.summary_statistics[1]

\* calculate_expected_topology_changes with tip-tip fusion taking one tip
calculate_expected_topology_changes_single(dict) ==
    LET stats == StatsOf(dict)
        n_tip_edge_fusion == Get(stats, "total_tip_edge_fusion", 0)
        n_junction_breakage == Get(stats, "total_junction_breakage", 0)
        n_tip_tip_fusion == Get(stats, "total_tip_tip_fusion", 0)
        n_tip_tip_fission == Get(stats, "total_tip_tip_fission", 0)
        n_extrusion == Get(stats, "total_extrusion", 0)
        n_retraction == Get(stats, "total_retraction", 0)
    IN [expected_delta_tips |->
            (-1) * n_tip_edge_fusion + 1 * n_junction_breakage
            + (-1) * n_tip_tip_fusion + 2 * n_tip_tip_fission
            + 1 * n_extrusion + (-1) * n_retraction,
        expected_delta_junctions |->
            1 * n_tip_edge_fusion + (-1) * n_junction_breakage
            + 0 * n_tip_tip_fusion + 0 * n_tip_tip_fission
            + 1 * n_extrusion + (-1) * n_retraction,
        event_counts |->
            [tip_edge_fusion |-> n_tip_edge_fusion,
             junction_breakage |-> n_junction_breakage,
             tip_tip_fusion |-> n_tip_tip_fusion,
             tip_tip_fission |-> n_tip_tip_fission,
             extrusion |-> n_extrusion,
             retraction |-> n_retraction]]

\* calculate_expected_topology_changes
calculate_expected_topology_changes(dict) ==
    LET stats == StatsOf(dict)
        n_tip_edge_fusion == Get(stats, "total_tip_edge_fusion", 0)
        n_junction_breakage == Get(stats, "total_junction_breakage", 0)
        n_tip_tip_fusion == Get(stats, "total_tip_tip_fusion", 0)
        n_tip_tip_fission == Get(stats, "total_tip_tip_fission", 0)
        n_extrusion == Get(stats, "total_extrusion", 0)
        n_retraction == Get(stats, "total_retraction", 0)
    IN [expected_delta_tips |->
            (-1) * n_tip_edge_fusion + 1 * n_junction_breakage
            + (-2) * n_tip_tip_fusion + 2 * n_tip_tip_fission
            + 1 * n_extrusion + (-1) * n_retraction,
        expected_delta_junctions |->
            1 * n_tip_edge_fusion + (-1) * n_junction_breakage
            + 0 * n_tip_tip_fusion + 0 * n_tip_tip_fission
            + 1 * n_extrusion + (-1) * n_retraction,
        event_counts |->
            [tip_edge_fusion |-> n_tip_edge_fusion,
             junction_breakage |-> n_junction_breakage,
             tip_tip_fusion |-> n_tip_tip_fusion,
             tip_tip_fission |-> n_tip_tip_fission,
             extrusion |-> n_extrusion,
             retraction |-> n_retraction]]

RECURSIVE SumSeq(_)
\* Series.sum(): the sum of a sequence of numbers
SumSeq(q) == IF q = <<>> THEN 0 ELSE Head(q) + SumSeq(Tail(q))

\* 100 * expected / actual if actual != 0 else 0, as <<numerator, denominator>>
PercentExplained(expected_delta, total_actual) ==
    IF total_actual # 0 THEN <<100 * expected_delta, total_actual>> ELSE <<0, 1>>

\* reconcile_topology_and_events: 'summary' holds the Tips row and the
\* Junctions row
reconcile_topology_and_events(cdf, dict) ==
    LET actual_changes_df == calculate_actual_topology_changes(cdf)
        expected_totals == calculate_expected_topology_changes(dict)
        total_actual_delta_tips ==
            SumSeq([n \in DOMAIN actual_changes_df |-> actual_changes_df[n].delta_tips])
        total_actual_delta_junctions ==
            SumSeq([n \in DOMAIN actual_changes_df |->
                       actual_changes_df[n].delta_junctions])
        discrepancy_tips ==
            total_actual_delta_tips - expected_totals.expected_delta_tips
        discrepancy_junctions ==
            total_actual_delta_junctions - expected_totals.expected_delta_junctions
    IN [summary |->
            [Tips |->
                [actual_change |-> total_actual_delta_tips,
                 expected_from_events |-> expected_totals.expected_delta_tips,
                 discrepancy |-> discrepancy_tips,
                 percent_explained |->
                     PercentExplained(expected_totals.expected_delta_tips,
                                      total_actual_delta_tips)],
             Junctions |->
                [actual_change |-> total_actual_delta_junctions,
                 expected_from_events |-> expected_totals.expected_delta_junctions,
                 discrepancy |-> discrepancy_junctions,
                 percent_explained |->
                     PercentExplained(expected_totals.expected_delta_junctions,
                                      total_actual_delta_junctions)]],
        actual_changes_by_transition |-> actual_changes_df,
        expected_totals |-> expected_totals,
        event_counts |-> expected_totals.event_counts]

\* reconcile_topology_and_events raises KeyError: with fewer than two time
\* points calculate_actual_topology_changes returns pd.DataFrame([]), which
\* has no column 'delta_tips' to sum
ReconcileRaises(cdf) == Len(calculate_actual_topology_changes(cdf)) = 0

--------------------------------------------------------------------------
(* Inferrer (topology_driven_inference.py): the effect matrix             *)

\* The order of the event categories in the columns of A
EventOrder == <<"tip_edge_fusion", "junction_breakage", "tip_tip_fusion",
                "tip_tip_fission", "extrusion", "retraction">>

\* An effect matrix whose tip-tip fusion removes one tip, not two
A_one_tip == << <<-1, 1, -1, 2, 1, -1>>,
                << 1, -1, 0, 0, 1, -1>> >>

\* The topology effect matrix: the tips equation and the junctions equation
A == << <<-1, 1, -2, 2, 1, -1>>,
        << 1, -1, 0, 0, 1, -1>> >>

\* Column n of A
Column(n) == <<A[1][n], A[2][n]>>

\* A @ v for a 6-vector v
Predicted(v) ==
    [r \in 1..2 |-> SumSeq([n \in 1..6 |-> A[r][n] * v[n]])]

Det(u, v) == u[1] * v[2] - u[2] * v[1]

\* num / den for a divisor of either sign that divides num
Quot(num, den) == IF den < 0 THEN (-num) \div (-den) ELSE num \div den

\* np.round of the rational num / den >= 0 (den > 0): the nearest integer;
\* for a value halfway between two integers either of them, since the
\* floating-point value the solver returns lies on either side of the half
RoundOutcomes(num, den) ==
    LET q == num \div den
        r == num % den
    IN IF 2 * r < den THEN {q}
       ELSE IF 2 * r > den THEN {q + 1}
       ELSE {q, q + 1}

\* np.round(x).astype(int) of the vector x = nums / den, componentwise
RoundVector(nums, den) ==
    {<<v1, v2, v3, v4, v5, v6>> :
        v1 \in RoundOutcomes(nums[1], den), v2 \in RoundOutcomes(nums[2], den),
        v3 \in RoundOutcomes(nums[3], den), v4 \in RoundOutcomes(nums[4], den),
        v5 \in RoundOutcomes(nums[5], den), v6 \in RoundOutcomes(nums[6], den)}

\* The basic solutions x >= 0 of A x = b_eq, each as the integer vector 2x:
\* a basic solution is supported on two independent columns, and every
\* 2 x 2 minor of A is 0, 2 or -2
BasicFeasible2(b_eq) ==
    LET bases == {q \in (1..6) \X (1..6) :
                     q[1] < q[2] /\ Det(Column(q[1]), Column(q[2])) # 0}
        twice(q) ==
            [n \in 1..6 |->
                IF n = q[1]
                THEN Quot(2 * Det(b_eq, Column(q[2])), Det(Column(q[1]), Column(q[2])))
                ELSE IF n = q[2]
                THEN Quot(2 * Det(Column(q[1]), b_eq), Det(Column(q[1]), Column(q[2])))
                ELSE 0]
    IN {w \in {twice(q) : q \in bases} : \A n \in 1..6 : w[n] >= 0}

\* linprog that stops at any vertex of the feasible region, optimal or not
linprog_any_vertex(b_eq) ==
    [success |-> BasicFeasible2(b_eq) # {}, x2 |-> BasicFeasible2(b_eq)]

\* linprog that reports failure, which sends the caller to least squares
linprog_failing(b_eq) == [success |-> FALSE, x2 |-> {}]

\* linprog(c = ones, A_eq = A, b_eq, bounds = (0, None)): success iff the
\* program is feasible (it is bounded below by 0), and then x is an optimal
\* solution, which a basic solution attains; x2 holds the vectors 2x of the
\* optimal basic solutions
linprog(b_eq) ==
    LET feasible == BasicFeasible2(b_eq)
    IN [success |-> feasible # {},
        x2 |-> {w \in feasible : \A u \in feasible : SumSeq(w) <= SumSeq(u)}]

\* np.maximum(0, np.linalg.lstsq(A, b)[0]).round().astype(int): the solution
\* of least norm is A^T (A A^T)^-1 b
lstsq_rounded(b_eq) ==
    LET g11 == SumSeq([n \in 1..6 |-> A[1][n] * A[1][n]])
        g12 == SumSeq([n \in 1..6 |-> A[1][n] * A[2][n]])
        g22 == SumSeq([n \in 1..6 |-> A[2][n] * A[2][n]])
        den == g11 * g22 - g12 * g12
        l1 == g22 * b_eq[1] - g12 * b_eq[2]
        l2 == g11 * b_eq[2] - g12 * b_eq[1]
        num(n) == A[1][n] * l1 + A[2][n] * l2
    IN RoundVector([n \in 1..6 |-> IF num(n) < 0 THEN 0 ELSE num(n)], den)

\* The point (d + A^T l)+ for the columns F left free, where the multiplier
\* l of the two equations solves (A_F A_F^T) l = b_eq - A_F d_F: den is the
\* determinant of A_F A_F^T and y is den * (d + A^T l)
QuadraticAt(F, detected_vector, b_eq) ==
    LET g11 == SumSeq([n \in 1..6 |-> IF n \in F THEN A[1][n] * A[1][n] ELSE 0])
        g12 == SumSeq([n \in 1..6 |-> IF n \in F THEN A[1][n] * A[2][n] ELSE 0])
        g22 == SumSeq([n \in 1..6 |-> IF n \in F THEN A[2][n] * A[2][n] ELSE 0])
        r1 == b_eq[1] - SumSeq([n \in 1..6 |->
                                  IF n \in F THEN A[1][n] * detected_vector[n] ELSE 0])
        r2 == b_eq[2] - SumSeq([n \in 1..6 |->
                                  IF n \in F THEN A[2][n] * detected_vector[n] ELSE 0])
        d == g11 * g22 - g12 * g12
        l1 == g22 * r1 - g12 * r2
        l2 == g11 * r2 - g12 * r1
    IN [den |-> d,
        y |-> [n \in 1..6 |-> d * detected_vector[n] + A[1][n] * l1 + A[2][n] * l2]]

\* The minimiser of sum((x - detected_vector)^2) subject to A x = b_eq and
\* x >= 0, as <<numerators, denominator>>.  It is (d + A^T l)+ for the
\* free set F at which the point is feasible and no bound is worth leaving
QuadraticMinimisers(detected_vector, b_eq) ==
    LET optimal(F, q) ==
            /\ q.den > 0
            /\ \A n \in 1..6 : IF n \in F THEN q.y[n] >= 0 ELSE q.y[n] <= 0
    IN {<<[n \in 1..6 |-> IF q[2].y[n] < 0 THEN 0 ELSE q[2].y[n]], q[2].den>> :
           q \in {u \in {<<F, QuadraticAt(F, detected_vector, b_eq)>> :
                             F \in SUBSET (1..6)} : optimal(u[1], u[2])}}

\* minimize(objective, x0 = detected_vector, bounds, constraints,
\* method = 'SLSQP'): the solver reports success with the minimiser, or it
\* reports failure (x then is where it stopped, which the caller does not
\* read; it is held as the start); the source cannot tell which
minimize_SLSQP(detected_vector, b_eq) ==
    {[success |-> TRUE, x |-> m] : m \in QuadraticMinimisers(detected_vector, b_eq)}
    \cup {[success |-> FALSE, x |-> <<detected_vector, 1>>]}

\* detected_vector: the counts of the prior in the order of the columns of
\* A, 0 for a key the dict lacks
DetectedVector(detected) == [n \in 1..6 |-> Get(detected, EventOrder[n], 0)]

\* One step of the body: a call of a solver with the success it reports, or
\* the assignment of detected_vector
Step(name, success) == [step |-> name, success |-> success]

\* The body with a least-squares fallback where the source falls back to
\* detected_vector
InferenceRuns_lstsq_fallback(b_eq, detected, how) ==
    IF how = "minimize_total"
    THEN LET result == linprog(b_eq)
         IN IF result.success
            THEN {[steps |-> <<Step("linprog", TRUE)>>, inferred_counts |-> v] :
                     v \in UNION {RoundVector(w, 2) : w \in result.x2}}
            ELSE {[steps |-> <<Step("linprog", FALSE), Step("lstsq", TRUE)>>,
                   inferred_counts |-> v] : v \in lstsq_rounded(b_eq)}
    ELSE IF how = "minimize_discrepancy" /\ detected # None
    THEN LET detected_vector == DetectedVector(detected[1])
         IN UNION {IF result.success
                   THEN {[steps |-> <<Step("minimize", TRUE)>>,
                          inferred_counts |-> v] :
                            v \in RoundVector(result.x[1], result.x[2])}
                   ELSE {[steps |-> <<Step("minimize", FALSE),
                                      Step("detected_vector", TRUE)>>,
                          inferred_counts |-> v] : v \in lstsq_rounded(b_eq)} :
                   result \in minimize_SLSQP(detected_vector, b_eq)}
    ELSE {[steps |-> <<Step("lstsq", TRUE)>>, inferred_counts |-> v] :
             v \in lstsq_rounded(b_eq)}

\* The runs of the body of infer_events_from_topology_change up to the
\* verification: the steps taken, in order, and the inferred_counts they
\* leave
InferenceRuns(b_eq, detected, how) ==
    IF how = "minimize_total"
    THEN LET result == linprog(b_eq)
         IN IF result.success
            THEN {[steps |-> <<Step("linprog", TRUE)>>, inferred_counts |-> v] :
                     v \in UNION {RoundVector(w, 2) : w \in result.x2}}
            ELSE {[steps |-> <<Step("linprog", FALSE), Step("lstsq", TRUE)>>,
                   inferred_counts |-> v] : v \in lstsq_rounded(b_eq)}
    ELSE IF how = "minimize_discrepancy" /\ detected # None
    THEN LET detected_vector == DetectedVector(detected[1])
         IN UNION {IF result.success
                   THEN {[steps |-> <<Step("minimize", TRUE)>>,
                          inferred_counts |-> v] :
                            v \in RoundVector(result.x[1], result.x[2])}
                   ELSE {[steps |-> <<Step("minimize", FALSE),
                                      Step("detected_vector", TRUE)>>,
                          inferred_counts |-> detected_vector]} :
                   result \in minimize_SLSQP(detected_vector, b_eq)}
    ELSE {[steps |-> <<Step("lstsq", TRUE)>>, inferred_counts |-> v] :
             v \in lstsq_rounded(b_eq)}

\* The values inferred_counts can take, tabulated for the calls whose
\* detected_vector is all zero (no prior, or a prior with none of the six
\* keys) and whose deltas are those of frames of up to MaxRows rows: the body
\* reads detected_events through detected_vector alone
InferredCountsOfZero ==
    [k \in ((-MaxRows)..MaxRows) \X ((-MaxRows)..MaxRows)
            \X {"minimize_total", "minimize_discrepancy"} \X BOOLEAN |->
        {run.inferred_counts :
            run \in InferenceRuns(<<k[1], k[2]>>,
                                  IF k[4] THEN Some(EmptyDict) ELSE None, k[3])}]

\* The values inferred_counts can take
InferredCounts(b_eq, detected, how) ==
    IF /\ <<b_eq[1], b_eq[2], how, detected # None>> \in DOMAIN InferredCountsOfZero
       /\ (detected # None => \A n \in 1..6 : DetectedVector(detected[1])[n] = 0)
    THEN InferredCountsOfZero[<<b_eq[1], b_eq[2], how, detected # None>>]
    ELSE {run.inferred_counts : run \in InferenceRuns(b_eq, detected, how)}

\* The returned dict with perfect_match judged on the tips equation alone
InferenceOf_tips_only(dt, dj, how, inferred_counts) ==
    LET predicted_delta_tips == Predicted(inferred_counts)[1]
        predicted_delta_junctions == Predicted(inferred_counts)[2]
        residual_tips == Abs(predicted_delta_tips - dt)
        residual_junctions == Abs(predicted_delta_junctions - dj)
    IN [inferred_event_counts |->
            [tip_edge_fusion |-> inferred_counts[1],
             junction_breakage |-> inferred_counts[2],
             tip_tip_fusion |-> inferred_counts[3],
             tip_tip_fission |-> inferred_counts[4],
             extrusion |-> inferred_counts[5],
             retraction |-> inferred_counts[6]],
        topology_match |->
            [actual_delta_tips |-> dt,
             actual_delta_junctions |-> dj,
             predicted_delta_tips |-> predicted_delta_tips,
             predicted_delta_junctions |-> predicted_delta_junctions,
             residual_tips |-> residual_tips,
             residual_junctions |-> residual_junctions,
             perfect_match |-> (residual_tips = 0)],
        optimization_method |-> how]

\* The dict infer_events_from_topology_change returns for inferred_counts
InferenceOf(dt, dj, how, inferred_counts) ==
    LET predicted_delta_tips == Predicted(inferred_counts)[1]
        predicted_delta_junctions == Predicted(inferred_counts)[2]
        residual_tips == Abs(predicted_delta_tips - dt)
        residual_junctions == Abs(predicted_delta_junctions - dj)
    IN [inferred_event_counts |->
            [tip_edge_fusion |-> inferred_counts[1],
             junction_breakage |-> inferred_counts[2],
             tip_tip_fusion |-> inferred_counts[3],
             tip_tip_fission |-> inferred_counts[4],
             extrusion |-> inferred_counts[5],
             retraction |-> inferred_counts[6]],
        topology_match |->
            [actual_delta_tips |-> dt,
             actual_delta_junctions |-> dj,
             predicted_delta_tips |-> predicted_delta_tips,
             predicted_delta_junctions |-> predicted_delta_junctions,
             residual_tips |-> residual_tips,
             residual_junctions |-> residual_junctions,
             perfect_match |-> (residual_tips = 0 /\ residual_junctions = 0)],
        optimization_method |-> how]

\* infer_events_from_topology_change: the dicts it can return
infer_events_from_topology_change(dt, dj, detected, how) ==
    {InferenceOf(dt, dj, how, v) : v \in InferredCounts(<<dt, dj>>, detected, how)}

\* calculate_degree_from_adjacencies of topology_driven_inference
inference_calculate_degree_from_adjacencies(adj_str) ==
    CASE adj_str.kind = "str_list"  -> Len(adj_str.items)
      [] adj_str.kind = "str_tuple" -> Len(adj_str.items)
      [] adj_str.kind = "str_str"   -> Len(adj_str.items)
      [] adj_str.kind = "str_dict"  -> Len(adj_str.items)
      [] adj_str.kind = "list"      -> Len(adj_str.items)
      [] OTHER                      -> 0

\* calculate_topology_metrics of topology_driven_inference
inference_calculate_topology_metrics(df) ==
    LET degree(k) ==
            inference_calculate_degree_from_adjacencies(df.rows[k].adjacencies)
    IN [num_tips |-> Cardinality({k \in DOMAIN df.rows : degree(k) = 1}),
        num_junctions |-> Cardinality({k \in DOMAIN df.rows : degree(k) >= 3}),
        num_components |->
            IF "component_num" \in df.columns
            THEN Cardinality({df.rows[k].component_num : k \in DOMAIN df.rows})
            ELSE 0]

\* The row of infer_events_for_timeseries for one transition and one
\* inference of it
ResultRow(t1, t2, dt, dj, inferred) ==
    [transition |-> <<t1, t2>>,
     time_point_1 |-> t1,
     time_point_2 |-> t2,
     delta_tips |-> dt,
     delta_junctions |-> dj,
     tip_edge_fusion |-> inferred.inferred_event_counts.tip_edge_fusion,
     junction_breakage |-> inferred.inferred_event_counts.junction_breakage,
     tip_tip_fusion |-> inferred.inferred_event_counts.tip_tip_fusion,
     tip_tip_fission |-> inferred.inferred_event_counts.tip_tip_fission,
     extrusion |-> inferred.inferred_event_counts.extrusion,
     retraction |-> inferred.inferred_event_counts.retraction,
     perfect_match |-> inferred.topology_match.perfect_match,
     residual_tips |-> inferred.topology_match.residual_tips,
     residual_junctions |-> inferred.topology_match.residual_junctions]

\* detected_events.get('event_counts') if detected_events else None: what the
\* loop hands to the Inferrer as detected_events, the same for every
\* transition
PriorOf(detected) ==
    IF detected # None /\ detected[1] # EmptyDict
       /\ "event_counts" \in DOMAIN detected[1]
    THEN Some(detected[1].event_counts) ELSE None

\* The detected_events handed to the Inferrer, by iteration of the loop
PriorsPassed(cdf, detected) ==
    [n \in 1..(Len(TimePoints(cdf)) - 1) |-> PriorOf(detected)]

RECURSIVE InferFrom(_, _, _, _, _)
\* The rows the loop of infer_events_for_timeseries can append from
\* iteration n (counted from 0) on
InferFrom(cdf, time_points, detected, how, n) ==
    IF ~(n < Len(time_points) - 1) THEN {<<>>}
    ELSE LET t1 == time_points[n + 1]
             t2 == time_points[n + 2]
             metrics_t1 == inference_calculate_topology_metrics(FrameAt(cdf, t1))
             metrics_t2 == inference_calculate_topology_metrics(FrameAt(cdf, t2))
             dt == metrics_t2.num_tips - metrics_t1.num_tips
             dj == metrics_t2.num_junctions - metrics_t1.num_junctions
             prior == PriorOf(detected)
         IN {<<ResultRow(t1, t2, dt, dj, inferred)>> \o rest :
                inferred \in infer_events_from_topology_change(dt, dj, prior, how),
                rest \in InferFrom(cdf, time_points, detected, how, n + 1)}

\* infer_events_for_timeseries: the DataFrames it can return
infer_events_for_timeseries(cdf, detected, how) ==
    InferFrom(cdf, TimePoints(cdf), detected, how, 0)

--------------------------------------------------------------------------
(* TimeSeriesAnalyzer (event_detector.analyze_timeseries_events)          *)

\* z_scale of analyze_timeseries_events: app_state.z_resolution /
\* app_state.y_resolution = 0.292 / 0.11
app_state_z_scale == <<146, 55>>

\* The pair (t1, t2) of iteration i of the loop (i counts from 0) that always
\* starts from the first time point
TransitionAt_first(time_points, n) == <<time_points[1], time_points[n + 2]>>

\* The pair (t1, t2) of iteration i of the loop (i counts from 0)
TransitionAt(time_points, n) == <<time_points[n + 1], time_points[n + 2]>>

\* all_events after the events of one transition are added to it
Aggregate(all, ev) ==
    [all EXCEPT
        !.tip_edge_fusion_events = @ \o ev.tip_edge_fusion,
        !.junction_breakage_events = @ \o ev.junction_breakage,
        !.tip_tip_fusion_events = @ \o ev.tip_tip_fusion,
        !.tip_tip_fission_events = @ \o ev.tip_tip_fission,
        !.extrusion_events = @ \o ev.extrusion,
        !.retraction_events = @ \o ev.retraction]

\* summary_stats of all_events
SummaryStats(all) ==
    [total_tip_edge_fusion |-> Len(all.tip_edge_fusion_events),
     total_junction_breakage |-> Len(all.junction_breakage_events),
     total_tip_tip_fusion |-> Len(all.tip_tip_fusion_events),
     total_tip_tip_fission |-> Len(all.tip_tip_fission_events),
     total_extrusion |-> Len(all.extrusion_events),
     total_retraction |-> Len(all.retraction_events)]

--------------------------------------------------------------------------
(* Inputs of a run on a time series                                       *)

\* The greatest time point of a series; a series may lack any of 1..MaxTime
MaxTime == 4

RECURSIVE SeriesRows(_, _, _, _, _, _)
\* The rows of the series over the time points tp..last with at most cap
\* rows in a frame and budget rows in all, in ascending time order (the
\* loader concatenates the frames in that order)
SeriesRows(columns, cells, tp, last, budget, cap) ==
    IF tp > last THEN {<<>>}
    ELSE UNION {{fr.rows \o rest :
                    fr \in Frames(columns, tp, cells, m),
                    rest \in SeriesRows(columns, cells, tp + 1, last, budget - m, cap)} :
                m \in 0..(IF budget < cap THEN budget ELSE cap)}

\* Families of series: the columns, the cells of the rows, the last time
\* point, the bounds on the rows, the thresholds and the persistence windows.
\* Chain: one node in a frame, which moves along z, changes degree or is
\* missing
Chain ==
    [columns |-> BaseColumns,
     cells |-> Cells({PA}, {Tip, Junction}, NoSignal)
               \o Cells({PD}, {Tip}, NoSignal),
     last |-> MaxTime, budget |-> MaxTime, cap |-> 1,
     thresholds |-> {1, 3}, windows |-> {1, 2, 3}]

\* Counted: several nodes in a frame, of every degree 0..4, in one or two
\* components, at any of three time points
Counted ==
    [columns |-> BaseColumns \cup {"component_num"},
     cells |-> SetToSeq(
         {[pos |-> PA, adjacencies |-> a[1], convergence_raw |-> 0,
           divergence_raw |-> 0, component_num |-> a[2]] :
          a \in {<<AdjStr(<<>>), 1>>, <<Tip, 1>>, <<AdjList(<<8, 9>>), 2>>,
                 <<Junction, 2>>, <<AdjList(<<6, 7, 8, 9>>), 1>>}}),
     last |-> 3, budget |-> MaxRows, cap |-> MaxRows,
     thresholds |-> {1}, windows |-> {1}]

\* Faulty: one node in a frame whose adjacency value may be the string "5"
\* or the string "'abc'"
Faulty ==
    [columns |-> BaseColumns,
     cells |-> Cells({PA}, {Tip, Junction, AdjNumber, AdjQuoted(<<97, 98, 99>>)},
                     NoSignal),
     last |-> 3, budget |-> 3, cap |-> 1,
     thresholds |-> {1}, windows |-> {1}]

SeriesFamilies == {Chain, Counted, Faulty}

--------------------------------------------------------------------------
(* A run of analyze_timeseries_events and of the topology aggregation on  *)
(* one series                                                             *)

\* read_timeseries_csvs has returned: the concatenated frames, or
\* pd.DataFrame(), with no column, when no frame was loaded
InitSeries ==
    /\ pc = "loaded"
    /\ \E fam \in SeriesFamilies :
        /\ \E rows \in SeriesRows(fam.columns, fam.cells, 1, fam.last, fam.budget,
                                   fam.cap) :
              combined_df = IF rows = <<>> THEN NoFrame
                            ELSE [columns |-> fam.columns, rows |-> rows,
                                  pos_dtype |-> "int64"]
        /\ distance_threshold \in fam.thresholds
        /\ persistence_window \in fam.windows
    /\ z_scale = app_state_z_scale
    /\ df_t1 = NoFrame /\ df_t2 = NoFrame
    /\ matches = EmptyDict
    /\ events = NoEvents
    /\ SeriesIdle
    /\ ExpectIdle
    /\ InferIdle
    /\ CorrectIdle

\* The report of step 1, which reads combined_df['time_point']: KeyError
\* for a table without the column
ReportLoaded ==
    /\ pc = "loaded"
    /\ pc' = IF "time_point" \in combined_df.columns THEN "analyze" ELSE "raised"
    /\ UNCHANGED <<callVars, seriesVars, expectVars, inferVars, correctVars>>

\* One iteration of the loop of analyze_timeseries_events; an exception of
\* classify_network_events is not caught and ends the call
AnalyzeStep ==
    /\ pc = "analyze"
    /\ loop_i < Len(TimePoints(combined_df)) - 1
    /\ LET t == TransitionAt(TimePoints(combined_df), loop_i)
           d1 == FrameAt(combined_df, t[1])
           d2 == FrameAt(combined_df, t[2])
           c == Call(d1, d2, distance_threshold, z_scale, combined_df,
                     persistence_window)
           ev == classify_network_events(c)
       IN /\ df_t1' = d1
          /\ df_t2' = d2
          /\ IF ClassifyRaises(c)
             THEN /\ pc' = "raised"
                  /\ UNCHANGED <<matches, events, all_events, classified, loop_i>>
             ELSE /\ matches' = match_nodes_spatially(d1, d2, distance_threshold,
                                                      z_scale)
                  /\ events' = ev
                  /\ all_events' = Aggregate(all_events, ev)
                  /\ classified' = Append(classified, t)
                  /\ loop_i' = loop_i + 1
                  /\ UNCHANGED pc
    /\ UNCHANGED <<combined_df, distance_threshold, z_scale,
                   persistence_window, reconciliation, inferred_df_total,
                   inferred_df_discrepancy, priors_passed, first_run,
                   expectVars, inferVars, correctVars>>

\* The end of analyze_timeseries_events: the summary statistics
AnalyzeSummary ==
    /\ pc = "analyze"
    /\ ~(loop_i < Len(TimePoints(combined_df)) - 1)
    /\ all_events' =
          [all_events EXCEPT !.summary_statistics = <<SummaryStats(all_events)>>]
    /\ pc' = "analyzed"
    /\ UNCHANGED <<callVars, loop_i, classified, reconciliation,
                   inferred_df_total, inferred_df_discrepancy, priors_passed,
                   first_run, expectVars, inferVars, correctVars>>

\* reconcile_topology_and_events(combined_df, detected_events)
Reconcile ==
    /\ pc = "analyzed"
    /\ IF ReconcileRaises(combined_df)
       THEN /\ pc' = "raised"
            /\ UNCHANGED reconciliation
       ELSE /\ reconciliation' = reconcile_topology_and_events(combined_df,
                                                               all_events)
            /\ pc' = "reconciled"
    /\ UNCHANGED <<callVars, loop_i, all_events, classified, inferred_df_total,
                   inferred_df_discrepancy, priors_passed, first_run,
                   expectVars, inferVars, correctVars>>

\* infer_events_for_timeseries(combined_df,
\*     detected_events={'event_counts': detected_events['summary_statistics']},
\*     method='minimize_discrepancy')
InferSeriesDiscrepancy ==
    /\ pc = "reconciled"
    /\ LET detected == Some([event_counts |-> all_events.summary_statistics[1]])
       IN /\ inferred_df_discrepancy'
                \in infer_events_for_timeseries(combined_df, detected,
                                                "minimize_discrepancy")
          /\ priors_passed' = PriorsPassed(combined_df, detected)
    /\ pc' = "inferred_discrepancy"
    /\ UNCHANGED <<callVars, loop_i, all_events, classified, reconciliation,
                   inferred_df_total, first_run, expectVars, inferVars,
                   correctVars>>

\* infer_events_for_timeseries(combined_df, detected_events=None,
\*                             method='minimize_total')
InferSeriesTotal ==
    /\ pc = "inferred_discrepancy"
    /\ inferred_df_total'
          \in infer_events_for_timeseries(combined_df, None, "minimize_total")
    /\ pc' = "inferred_total"
    /\ UNCHANGED <<callVars, loop_i, all_events, classified, reconciliation,
                   inferred_df_discrepancy, priors_passed, first_run,
                   expectVars, inferVars, correctVars>>

NextSeries ==
    \/ ReportLoaded
    \/ AnalyzeStep \/ AnalyzeSummary \/ Reconcile
    \/ InferSeriesDiscrepancy \/ InferSeriesTotal

SpecSeries == InitSeries /\ [][NextSeries]_vars

\* --------------------------------------------------------------------------
\* The series analysis run twice on one table. Between two runs the program
\* keeps the table (combined_df, which the analysis reads through copies: the
\* frames are .copy() slices and the scaled positions are pos.copy()) and the
\* module-level app_state, whose z_resolution and y_resolution are assigned
\* in AppState.__init__ only; everything else is local to the calls.

\* A variant in which the lists outlive the call, as a module-level dict or a
\* mutable default argument would
InitialAllEvents_kept(previous) ==
    [previous EXCEPT !.summary_statistics = <<>>]

\* all_events at the start of analyze_timeseries_events: a dict literal built
\* in the call, whatever an earlier call accumulated
InitialAllEvents(previous) == NoAllEvents

\* What a run hands back: how it ended, the lists and summary_statistics of
\* analyze_timeseries_events and actual_changes_by_transition of
\* reconcile_topology_and_events
RunOutput ==
    [ended |-> pc,
     all_events |-> all_events,
     actual_changes_by_transition |->
         IF pc = "reconciled"
         THEN Some(reconciliation.actual_changes_by_transition)
         ELSE None]

\* The second run starts: the same table and arguments, z_scale read again
\* from app_state, and the locals of both functions built afresh
Rerun ==
    /\ pc \in {"reconciled", "raised"}
    /\ first_run = None
    /\ first_run' = Some(RunOutput)
    /\ pc' = "loaded"
    /\ z_scale' = app_state_z_scale
    /\ loop_i' = 0
    /\ all_events' = InitialAllEvents(all_events)
    /\ classified' = <<>>
    /\ reconciliation' = None
    /\ df_t1' = NoFrame /\ df_t2' = NoFrame
    /\ matches' = EmptyDict
    /\ events' = NoEvents
    /\ UNCHANGED <<combined_df, distance_threshold, persistence_window,
                   inferred_df_total, inferred_df_discrepancy, priors_passed,
                   expectVars, inferVars, correctVars>>

InitRerun == InitSeries

NextRerun ==
    \/ ReportLoaded
    \/ AnalyzeStep \/ AnalyzeSummary \/ Reconcile
    \/ Rerun

SpecRerun == InitRerun /\ [][NextRerun]_vars

\* --------------------------------------------------------------------------
\* Series in which a tip and the junction it hangs on appear or disappear
\* together.  Sprout: three time points; a frame holds up to two of a tip at
\* (1,0,0), (2,0,0), (0,1,0) or (3,0,0) and a junction at (0,0,0) that lists
\* the nodes 1 and 2.  (2,0,0) is within the threshold of the tip at (1,0,0)
\* and not of the junction, (0,1,0) of the junction and not of the tip,
\* (3,0,0) of neither.
Sprout ==
    [columns |-> BaseColumns,
     cells |-> Cells({PB, PC, PF, PE}, {Tip}, NoSignal)
               \o Cells({PA}, {JunctionTo12}, NoSignal),
     last |-> 3, budget |-> MaxRows + 1, cap |-> 2,
     thresholds |-> {1}, windows |-> {1, 2}]

SproutFamilies == {Sprout}

InitSprout ==
    /\ pc = "loaded"
    /\ \E fam \in SproutFamilies :
        /\ \E rows \in SeriesRows(fam.columns, fam.cells, 1, fam.last, fam.budget,
                                   fam.cap) :
              combined_df = IF rows = <<>> THEN NoFrame
                            ELSE [columns |-> fam.columns, rows |-> rows,
                                  pos_dtype |-> "int64"]
        /\ distance_threshold \in fam.thresholds
        /\ persistence_window \in fam.windows
    /\ z_scale = app_state_z_scale
    /\ df_t1 = NoFrame /\ df_t2 = NoFrame
    /\ matches = EmptyDict
    /\ events = NoEvents
    /\ SeriesIdle
    /\ ExpectIdle
    /\ InferIdle
    /\ CorrectIdle

NextSprout == ReportLoaded \/ AnalyzeStep \/ AnalyzeSummary

SpecSprout == InitSprout /\ [][NextSprout]_vars

--------------------------------------------------------------------------
(* What the claims say of a run on a series, stated from the series alone *)

\* The time points that have a frame in the series
SeriesTimes == {combined_df.rows[k].time_point : k \in DOMAIN combined_df.rows}

\* The rows of the frame of time point tp
RowsAt(tp) == {k \in DOMAIN combined_df.rows : combined_df.rows[k].time_point = tp}

\* a and b are time points of the series with none between them
Adjacent(a, b) ==
    /\ a \in SeriesTimes /\ b \in SeriesTimes /\ a < b
    /\ ~\E t \in SeriesTimes : a < t /\ t < b

\* Some node of frame tp is within the threshold of position p
NodeNear(tp, p) ==
    \E k \in RowsAt(tp) :
        ClaimWithin(p, RowPos(combined_df.rows[k]), distance_threshold)

\* The transition classified last
LastT1 == classified[Len(classified)][1]
LastT2 == classified[Len(classified)][2]

\* The frames of the series in the w-1 time points before t1 and in the w
\* time points after t2
WindowBefore ==
    {tp \in SeriesTimes : LastT1 - persistence_window < tp /\ tp < LastT1}
WindowAfter ==
    {tp \in SeriesTimes : LastT2 < tp /\ tp <= LastT2 + persistence_window}

PersistsAround(position_t1, position_t2) ==
    /\ \A tp \in WindowBefore : NodeNear(tp, position_t1)
    /\ \A tp \in WindowAfter : NodeNear(tp, position_t2)

CountsOfTransition(a, b) ==
    LET given == classify_network_events(
                    Call(FrameAt(combined_df, a), FrameAt(combined_df, b),
                         distance_threshold, z_scale, combined_df,
                         persistence_window))
    IN <<Len(given.tip_edge_fusion), Len(given.junction_breakage),
         Len(given.tip_tip_fusion), Len(given.tip_tip_fission),
         Len(given.extrusion), Len(given.retraction)>>

RECURSIVE SumOfCounts(_)
\* The componentwise sum of the counts of a set of transitions
SumOfCounts(S) ==
    IF S = {} THEN <<0, 0, 0, 0, 0, 0>>
    ELSE LET t == CHOOSE u \in S : TRUE
             head == CountsOfTransition(t[1], t[2])
             rest == SumOfCounts(S \ {t})
         IN [n \in 1..6 |-> head[n] + rest[n]]

\* C7: analyze_timeseries_events classifies exactly the n-1 pairs of
\* consecutive distinct time points, each once and in ascending order, never
\* a pair with a time point between; on return every total_<category> is
\* the length of the category's concatenated list and the sum over the
\* transitions of the number of events of the category.
C7_ConsecutivePairs ==
    /\ \A k \in DOMAIN classified : Adjacent(classified[k][1], classified[k][2])
    /\ \A k \in 1..(Len(classified) - 1) : classified[k][1] < classified[k + 1][1]
    /\ pc = "analyzed" =>
          /\ Len(classified) = Cardinality(SeriesTimes) - 1
          /\ all_events.summary_statistics
                = <<[total_tip_edge_fusion |-> Len(all_events.tip_edge_fusion_events),
                     total_junction_breakage |->
                         Len(all_events.junction_breakage_events),
                     total_tip_tip_fusion |-> Len(all_events.tip_tip_fusion_events),
                     total_tip_tip_fission |-> Len(all_events.tip_tip_fission_events),
                     total_extrusion |-> Len(all_events.extrusion_events),
                     total_retraction |-> Len(all_events.retraction_events)]>>
          /\ <<all_events.summary_statistics[1].total_tip_edge_fusion,
               all_events.summary_statistics[1].total_junction_breakage,
               all_events.summary_statistics[1].total_tip_tip_fusion,
               all_events.summary_statistics[1].total_tip_tip_fission,
               all_events.summary_statistics[1].total_extrusion,
               all_events.summary_statistics[1].total_retraction>>
                = SumOfCounts({t \in SeriesTimes \X SeriesTimes : Adjacent(t[1], t[2])})

\* Three transitions, two of which give a tip-edge fusion each
C7_Witness ==
    /\ pc = "analyzed"
    /\ Len(classified) = 3
    /\ all_events.summary_statistics[1].total_tip_edge_fusion = 2
    /\ all_events.tip_edge_fusion_events[1].timepoint_1
           # all_events.tip_edge_fusion_events[2].timepoint_1
    /\ all_events.summary_statistics[1].total_junction_breakage = 1

\* The tips, junctions and components of the frame of time point tp
TipsAt(tp) == Cardinality({k \in RowsAt(tp) : ListLen(combined_df.rows[k]) = 1})
JunctionsAt(tp) == Cardinality({k \in RowsAt(tp) : ListLen(combined_df.rows[k]) >= 3})
ComponentsAt(tp) ==
    IF "component_num" \in combined_df.columns
    THEN Cardinality({combined_df.rows[k].component_num : k \in RowsAt(tp)})
    ELSE 0

\* C8: calculate_topology_metrics gives a frame tips = the number of its
\* nodes that list exactly 1 neighbour, junctions = the number that list 3
\* or more (0 and 2 count in neither) and components = the number of
\* distinct component_num values, 0 without the column; every consecutive
\* transition reports these for t1 and t2 and as deltas the t2 value minus
\* the t1 value, in the Reconciler's table and in the Inferrer's table.
C8_TopologyMetrics ==
    /\ pc \in {"reconciled", "inferred_discrepancy", "inferred_total"} =>
          LET changes == reconciliation.actual_changes_by_transition
          IN /\ Len(changes) = Cardinality(SeriesTimes) - 1
             /\ \A k \in DOMAIN changes :
                   LET c == changes[k]
                   IN /\ Adjacent(c.time_point_1, c.time_point_2)
                      /\ c.tips_t1 = TipsAt(c.time_point_1)
                      /\ c.tips_t2 = TipsAt(c.time_point_2)
                      /\ c.junctions_t1 = JunctionsAt(c.time_point_1)
                      /\ c.junctions_t2 = JunctionsAt(c.time_point_2)
                      /\ c.components_t1 = ComponentsAt(c.time_point_1)
                      /\ c.components_t2 = ComponentsAt(c.time_point_2)
                      /\ c.delta_tips
                            = TipsAt(c.time_point_2) - TipsAt(c.time_point_1)
                      /\ c.delta_junctions
                            = JunctionsAt(c.time_point_2) - JunctionsAt(c.time_point_1)
                      /\ c.delta_components
                            = ComponentsAt(c.time_point_2) - ComponentsAt(c.time_point_1)
    /\ pc = "inferred_total" =>
          /\ Len(inferred_df_total) = Cardinality(SeriesTimes) - 1
          /\ \A k \in DOMAIN inferred_df_total :
                LET c == inferred_df_total[k]
                IN /\ Adjacent(c.time_point_1, c.time_point_2)
                   /\ c.delta_tips = TipsAt(c.time_point_2) - TipsAt(c.time_point_1)
                   /\ c.delta_junctions
                         = JunctionsAt(c.time_point_2) - JunctionsAt(c.time_point_1)

\* A frame of a degree-2 and a degree-4 node in two components followed by a
\* frame of one tip: one junction and no tip, then one tip and no junction
C8_Witness ==
    /\ pc = "inferred_total"
    /\ \E k \in DOMAIN inferred_df_total :
          inferred_df_total[k].delta_tips = 1 /\ inferred_df_total[k].delta_junctions = -1
    /\ \E k \in DOMAIN reconciliation.actual_changes_by_transition :
          LET change == reconciliation.actual_changes_by_transition[k]
          IN /\ \E r \in RowsAt(change.time_point_1) :
                    ListLen(combined_df.rows[r]) = 2
             /\ \E r \in RowsAt(change.time_point_1) :
                    ListLen(combined_df.rows[r]) = 4
             /\ change.tips_t1 = 0 /\ change.junctions_t1 = 1
             /\ change.delta_tips = 1 /\ change.delta_junctions = -1
             /\ change.delta_components = -1

--------------------------------------------------------------------------
(* A direct call of calculate_expected_topology_changes                   *)

\* The greatest count of one event category in a summary
MaxCount == 2

\* The key of a category in summary_statistics
TotalKey ==
    [tip_edge_fusion |-> "total_tip_edge_fusion",
     junction_breakage |-> "total_junction_breakage",
     tip_tip_fusion |-> "total_tip_tip_fusion",
     tip_tip_fission |-> "total_tip_tip_fission",
     extrusion |-> "total_extrusion",
     retraction |-> "total_retraction"]

\* The dicts a caller can hand over: with no summary, or with any six totals
EventDicts ==
    {[NoAllEvents EXCEPT !.summary_statistics = st] :
        st \in {<<>>} \cup
               {<<q>> : q \in [{TotalKey[cat] : cat \in Categories} -> 0..MaxCount]}}

InitExpect ==
    /\ pc = "expect"
    /\ events_dict \in EventDicts
    /\ expected = None
    /\ df_t1 = NoFrame /\ df_t2 = NoFrame /\ combined_df = NoFrame
    /\ distance_threshold = 1 /\ z_scale = <<1, 1>> /\ persistence_window = 1
    /\ matches = EmptyDict
    /\ events = NoEvents
    /\ SeriesIdle
    /\ InferIdle
    /\ CorrectIdle

\* calculate_expected_topology_changes(events_dict)
ExpectedChanges ==
    /\ pc = "expect"
    /\ expected' = calculate_expected_topology_changes(events_dict)
    /\ pc' = "expected"
    /\ UNCHANGED <<callVars, seriesVars, events_dict, inferVars, correctVars>>

NextExpect == ExpectedChanges

SpecExpect == InitExpect /\ [][NextExpect]_vars

\* The (delta tips, delta junctions) signature of one event of a category
SignatureTable ==
    [tip_edge_fusion |-> <<-1, 1>>, junction_breakage |-> <<1, -1>>,
     tip_tip_fusion |-> <<-2, 0>>, tip_tip_fission |-> <<2, 0>>,
     extrusion |-> <<1, 1>>, retraction |-> <<-1, -1>>]

\* The number of events of a category that the dict reports
Reported(cat) ==
    IF events_dict.summary_statistics = <<>> THEN 0
    ELSE events_dict.summary_statistics[1][TotalKey[cat]]

\* The product of a 2 x 6 matrix and a 6-vector
MatVec(M, v) ==
    [r \in 1..2 |-> SumSeq([n \in 1..6 |-> M[r][n] * v[n]])]

\* C9: for every six event counts the expected (delta_tips, delta_junctions)
\* of the Reconciler is the sum over the categories of count times the
\* category's signature (-1/+1, +1/-1, -2/0, +2/0, +1/+1, -1/-1), the
\* columns of the Inferrer's matrix A are these signatures in the Inferrer's
\* category order, and so expected = A . counts.
C9_SharedEffectMatrix ==
    pc = "expected" =>
        LET counts == [n \in 1..6 |-> Reported(EventOrder[n])]
            summed(r) ==
                SumSeq([n \in 1..6 |->
                           counts[n] * SignatureTable[EventOrder[n]][r]])
        IN /\ expected.expected_delta_tips = summed(1)
           /\ expected.expected_delta_junctions = summed(2)
           /\ \A n \in 1..6 : <<A[1][n], A[2][n]>> = SignatureTable[EventOrder[n]]
           /\ MatVec(A, counts)
                 = <<expected.expected_delta_tips, expected.expected_delta_junctions>>
           /\ \A cat \in Categories : expected.event_counts[cat] = Reported(cat)

\* Every category present, the two tip-tip categories in different numbers
C9_Witness ==
    /\ pc = "expected"
    /\ \A cat \in Categories : Reported(cat) > 0
    /\ Reported("tip_tip_fusion") = 2 /\ Reported("tip_tip_fission") = 1
    /\ Reported("junction_breakage") = 2 /\ Reported("tip_edge_fusion") = 1
    /\ Reported("extrusion") = 1 /\ Reported("retraction") = 2
    /\ expected.expected_delta_tips = -2
    /\ expected.expected_delta_junctions = -2

--------------------------------------------------------------------------
(* A direct call of infer_events_from_topology_change                     *)

\* The greatest size of delta_tips and of delta_junctions
MaxDelta == 3

\* A dict of detected counts with the keys of the categories
Detected(v) == [cat \in Categories |-> v[CHOOSE n \in 1..6 : EventOrder[n] = cat]]

\* The priors of a call: none, an empty dict, and some counts
Priors ==
    {None, Some(EmptyDict)}
    \cup {Some(Detected(v)) :
             v \in {<<0, 0, 0, 0, 0, 0>>, <<1, 0, 0, 0, 0, 0>>,
                    <<0, 0, 2, 0, 0, 0>>, <<1, 1, 1, 1, 1, 1>>,
                    <<0, 1, 0, 2, 0, 1>>}}

\* The methods of a call: the two known ones and an unknown one
Methods == {"minimize_total", "minimize_discrepancy", "least_squares"}

InitInfer ==
    /\ pc = "infer"
    /\ delta_tips \in -MaxDelta..MaxDelta
    /\ delta_junctions \in -MaxDelta..MaxDelta
    /\ method \in Methods
    /\ detected_events \in IF method = "minimize_discrepancy" THEN Priors
                           ELSE {None, Some(Detected(<<1, 1, 1, 1, 1, 1>>))}
    /\ inference = None
    /\ solver_steps = <<>>
    /\ df_t1 = NoFrame /\ df_t2 = NoFrame /\ combined_df = NoFrame
    /\ distance_threshold = 1 /\ z_scale = <<1, 1>> /\ persistence_window = 1
    /\ matches = EmptyDict
    /\ events = NoEvents
    /\ SeriesIdle
    /\ ExpectIdle
    /\ CorrectIdle

\* infer_events_from_topology_change(delta_tips, delta_junctions,
\*                                   detected_events, method)
Infer ==
    /\ pc = "infer"
    /\ \E run \in InferenceRuns(<<delta_tips, delta_junctions>>, detected_events,
                              method) :
          /\ inference' = InferenceOf(delta_tips, delta_junctions, method,
                                      run.inferred_counts)
          /\ solver_steps' = run.steps
    /\ pc' = "inferred"
    /\ UNCHANGED <<callVars, seriesVars, expectVars, correctVars, delta_tips,
                   delta_junctions, detected_events, method>>

NextInfer == Infer

SpecInfer == InitInfer /\ [][NextInfer]_vars

\* C10: for every integer (delta_tips, delta_junctions) = b for which some
\* nonnegative integer 6-vector v has A . v = b, method minimize_total
\* returns counts that are integers >= 0 with A . counts = b exactly, and
\* reports perfect_match.
C10_ExactWhenSolvable ==
    (/\ pc = "inferred" /\ method = "minimize_total"
     /\ \E v \in [1..6 -> 0..MaxDelta] :
           MatVec(A, v) = <<delta_tips, delta_junctions>>) =>
        LET returned == [n \in 1..6 |-> inference.inferred_event_counts[EventOrder[n]]]
        IN /\ \A n \in 1..6 : returned[n] \in Nat
           /\ MatVec(A, returned) = <<delta_tips, delta_junctions>>
           /\ inference.topology_match.perfect_match
           /\ inference.topology_match.residual_tips = 0
           /\ inference.topology_match.residual_junctions = 0

\* b = (-3, 1), which takes events of two categories: one tip-edge fusion
\* and one tip-tip fusion
C10_Witness ==
    /\ pc = "inferred" /\ method = "minimize_total"
    /\ delta_tips = -3 /\ delta_junctions = 1
    /\ inference.inferred_event_counts.tip_edge_fusion = 1
    /\ inference.inferred_event_counts.tip_tip_fusion = 1
    /\ inference.topology_match.perfect_match

\* The six inferred counts of the call, in the order of the columns of A
ReturnedVector ==
    [n \in 1..6 |-> inference.inferred_event_counts[EventOrder[n]]]

\* C11: whenever minimize_total reports a perfect match for
\* b = (delta_tips, delta_junctions), the total of the six inferred counts is
\* minimal: every nonnegative integer vector v with A . v = b has a total at
\* least as large (a vector of smaller total has its entries below the
\* returned total, so those are the vectors compared).
C11_MinimalTotal ==
    (/\ pc = "inferred" /\ method = "minimize_total"
     /\ inference.topology_match.perfect_match) =>
        \A v \in [1..6 -> 0..SumSeq(ReturnedVector)] :
            MatVec(A, v) = <<delta_tips, delta_junctions>> =>
                SumSeq(v) >= SumSeq(ReturnedVector)

\* b = (2, 0): one tip-tip fission is returned, while a junction breakage
\* with an extrusion, of total 2, explains b as well
C11_Witness ==
    /\ pc = "inferred" /\ method = "minimize_total"
    /\ delta_tips = 2 /\ delta_junctions = 0
    /\ inference.topology_match.perfect_match
    /\ ReturnedVector = <<0, 0, 0, 1, 0, 0>>
    /\ MatVec(A, <<0, 1, 0, 0, 1, 0>>) = <<delta_tips, delta_junctions>>

\* A call of minimize_total for delta_tips = -2, delta_junctions = 0 with no
\* detected events has returned
FusedPairCall ==
    /\ pc = "inferred" /\ method = "minimize_total"
    /\ delta_tips = -2 /\ delta_junctions = 0
    /\ detected_events = None

\* C12 as stated: for delta_tips = -2, delta_junctions = 0 and no detected
\* events, minimize_total infers tip_tip_fusion = 2 with every other
\* category 0, and reports perfect_match.
C12_AsStated ==
    FusedPairCall =>
        /\ ReturnedVector = <<0, 0, 2, 0, 0, 0>>
        /\ inference.topology_match.perfect_match

\* C12: for delta_tips = -2, delta_junctions = 0 and no detected events,
\* minimize_total infers tip_tip_fusion = 1 with every other category 0 (one
\* tip-tip fusion removes two tips), and reports perfect_match with both
\* residuals 0.
C12_OneTipTipFusion ==
    FusedPairCall =>
        /\ ReturnedVector = <<0, 0, 1, 0, 0, 0>>
        /\ inference.topology_match.perfect_match
        /\ inference.topology_match.residual_tips = 0
        /\ inference.topology_match.residual_junctions = 0

\* The call has returned a single tip-tip fusion, which predicts the deltas
C12_Witness ==
    /\ FusedPairCall
    /\ inference.inferred_event_counts.tip_tip_fusion = 1
    /\ inference.topology_match.predicted_delta_tips = -2
    /\ inference.topology_match.predicted_delta_junctions = 0

\* C13: whatever the method and the path taken (primary solve, least-squares
\* fallback, prior fallback, unknown method), the reported residual_tips and
\* residual_junctions are |A . v - b| row by row for the integer vector v
\* returned, and perfect_match is reported exactly when both are 0.
C13_ResidualsOfReturned ==
    pc = "inferred" =>
        LET Av == MatVec(A, ReturnedVector)
        IN /\ inference.topology_match.residual_tips = Abs(Av[1] - delta_tips)
           /\ inference.topology_match.residual_junctions =
                  Abs(Av[2] - delta_junctions)
           /\ inference.topology_match.perfect_match <=>
                  (/\ inference.topology_match.residual_tips = 0
                   /\ inference.topology_match.residual_junctions = 0)

\* The prior fallback: minimize_discrepancy returned the prior of one
\* tip-edge fusion for b = (-1, 3), which matches the tips and misses the
\* junctions by 2
C13_Witness ==
    /\ pc = "inferred" /\ method = "minimize_discrepancy"
    /\ detected_events = Some(Detected(<<1, 0, 0, 0, 0, 0>>))
    /\ delta_tips = -1 /\ delta_junctions = 3
    /\ ReturnedVector = <<1, 0, 0, 0, 0, 0>>
    /\ inference.topology_match.residual_tips = 0
    /\ inference.topology_match.residual_junctions = 2
    /\ ~inference.topology_match.perfect_match

\* detected_vector of the call: the prior's counts in the order of the
\* columns of A, 0 for a category the dict lacks
PriorVector == DetectedVector(detected_events[1])

\* C14: for minimize_discrepancy with a prior, a solve that reports failure
\* is followed by the return of the prior unchanged; every call makes one
\* primary solve and, only after it reports failure, one fallback step
\* (least squares for minimize_total, the prior for minimize_discrepancy),
\* never a second solve of the same kind, and every call returns a result.
C14_FallbackOnce ==
    /\ pc = "infer" =>
           InferenceRuns(<<delta_tips, delta_junctions>>, detected_events,
                         method) # {}
    /\ pc = "inferred" =>
           LET primary ==
                   IF method = "minimize_total" THEN "linprog"
                   ELSE IF method = "minimize_discrepancy" /\ detected_events # None
                   THEN "minimize" ELSE "lstsq"
               fallback ==
                   IF method = "minimize_total" THEN "lstsq" ELSE "detected_vector"
           IN /\ Len(solver_steps) \in 1..2
              /\ solver_steps[1].step = primary
              /\ Len(solver_steps) = 1 <=> solver_steps[1].success
              /\ Len(solver_steps) = 2 =>
                    /\ primary # "lstsq"
                    /\ solver_steps[2] = Step(fallback, TRUE)
              /\ (/\ method = "minimize_discrepancy" /\ detected_events # None
                  /\ ~solver_steps[1].success) =>
                     ReturnedVector = PriorVector

\* SLSQP reported failure for the prior (0, 1, 0, 2, 0, 1) and b = (3, -3);
\* the prior came back, although it predicts (4, -2)
C14_Witness ==
    /\ pc = "inferred" /\ method = "minimize_discrepancy"
    /\ detected_events = Some(Detected(<<0, 1, 0, 2, 0, 1>>))
    /\ delta_tips = 3 /\ delta_junctions = -3
    /\ solver_steps = <<Step("minimize", FALSE), Step("detected_vector", TRUE)>>
    /\ ReturnedVector = <<0, 1, 0, 2, 0, 1>>
    /\ ~inference.topology_match.perfect_match

\* C15: when the driver runs minimize_discrepancy with the detected events,
\* the prior handed to the Inferrer for the transition (t1, t2) is there and
\* its detected_vector is the six counts of the events detected in that
\* transition.
C15_PriorOfTransition ==
    pc \in {"inferred_discrepancy", "inferred_total"} =>
        /\ Len(priors_passed) = Len(inferred_df_discrepancy)
        /\ \A n \in DOMAIN priors_passed :
              /\ priors_passed[n] # None
              /\ DetectedVector(priors_passed[n][1])
                    = CountsOfTransition(inferred_df_discrepancy[n].time_point_1,
                                         inferred_df_discrepancy[n].time_point_2)

\* C16: when either frame of the call is empty, the match relation is empty
\* and classify_network_events returns six empty lists, whatever the other
\* frame holds.
C16_EmptyFrame ==
    (pc = "done" /\ (Empty(df_t1) \/ Empty(df_t2))) =>
        /\ matches = EmptyDict
        /\ \A cat \in Categories : events[cat] = <<>>

\* The adjacency value is no list and no string of a list
NotAList(adj_str) == adj_str.kind \notin {"list", "str_list"}

\* C17: for every adjacency value that is unparseable or denotes no list,
\* the classifier and the topology aggregator give the node degree 0, and
\* the call does not raise.
C17_MalformedDegreeZero ==
    /\ pc # "raised"
    /\ pc = "done" =>
          \A df \in {df_t1, df_t2} : \A k \in DOMAIN df.rows :
              NotAList(df.rows[k].adjacencies) =>
                  /\ actual_degree(df, k) = 0
                  /\ reconciliation_calculate_degree_from_adjacencies(
                         df.rows[k].adjacencies) = 0

\* The classification of the transition (a, b) of the series fails
FailsAt(a, b) ==
    ClassifyRaises(Call(FrameAt(combined_df, a), FrameAt(combined_df, b),
                        distance_threshold, z_scale, combined_df,
                        persistence_window))

\* C18: a failure while classifying one transition does not abort the
\* series analysis: it returns, and its totals are the sums over the
\* transitions whose classification succeeded.
C18_FailureIsolated ==
    /\ pc # "raised"
    /\ pc = "analyzed" =>
          <<all_events.summary_statistics[1].total_tip_edge_fusion,
            all_events.summary_statistics[1].total_junction_breakage,
            all_events.summary_statistics[1].total_tip_tip_fusion,
            all_events.summary_statistics[1].total_tip_tip_fission,
            all_events.summary_statistics[1].total_extrusion,
            all_events.summary_statistics[1].total_retraction>>
              = SumOfCounts({t \in SeriesTimes \X SeriesTimes :
                               Adjacent(t[1], t[2]) /\ ~FailsAt(t[1], t[2])})

\* C19: a run on an input that exists ends with its summary tables and not
\* early; for a series with no loaded frame or a single time point the
\* detected totals are all 0, the reconciliation has no transition and
\* totals of 0, and both inference tables are empty.
C19_AlwaysSummary ==
    /\ pc # "raised"
    /\ (pc = "inferred_total" /\ Cardinality(SeriesTimes) <= 1) =>
          /\ \A k \in DOMAIN all_events.summary_statistics[1] :
                all_events.summary_statistics[1][k] = 0
          /\ reconciliation.actual_changes_by_transition = <<>>
          /\ reconciliation.expected_totals.expected_delta_tips = 0
          /\ reconciliation.expected_totals.expected_delta_junctions = 0
          /\ inferred_df_discrepancy = <<>>
          /\ inferred_df_total = <<>>


PositiveAt(d, p, col) ==
    \E k \in DOMAIN d.rows : RowPos(d.rows[k]) = p /\ d.rows[k][col] > 0

\* C21: when both frames carry the signal columns, a TipTipFusion event is
\* emitted only if one of its tips has a positive convergence and a
\* Retraction event only if its tip or its junction has, while a
\* TipTipFission or an Extrusion event is emitted only if one of its nodes
\* has a positive divergence.
C21_GateSigns ==
    (pc = "done" /\ BothDynamics) =>
        /\ \A k \in DOMAIN events.tip_tip_fusion :
              \/ PositiveAt(df_t1, events.tip_tip_fusion[k].tip1_position,
                            "convergence_raw")
              \/ PositiveAt(df_t1, events.tip_tip_fusion[k].tip2_position,
                            "convergence_raw")
        /\ \A k \in DOMAIN events.retraction :
              \/ PositiveAt(df_t1, events.retraction[k].tip_position,
                            "convergence_raw")
              \/ PositiveAt(df_t1, events.retraction[k].junction_position,
                            "convergence_raw")
        /\ \A k \in DOMAIN events.tip_tip_fission :
              \/ PositiveAt(df_t2, events.tip_tip_fission[k].tip1_position,
                            "divergence_raw")
              \/ PositiveAt(df_t2, events.tip_tip_fission[k].tip2_position,
                            "divergence_raw")
        /\ \A k \in DOMAIN events.extrusion :
              \/ PositiveAt(df_t2, events.extrusion[k].tip_position,
                            "divergence_raw")
              \/ PositiveAt(df_t2, events.extrusion[k].junction_position,
                            "divergence_raw")

\* No frame of the window before t1 has a node within the threshold of p and
\* every frame of the window after t2 has one; and the other way round
NewAt(p) ==
    /\ \A tp \in WindowBefore : ~NodeNear(tp, p)
    /\ \A tp \in WindowAfter : NodeNear(tp, p)
GoneAt(p) ==
    /\ \A tp \in WindowBefore : NodeNear(tp, p)
    /\ \A tp \in WindowAfter : ~NodeNear(tp, p)

\* C22: with persistence enabled, the Extrusion events of a transition are
\* exactly the adjacent (tip, junction) candidates whose junction position is
\* new (absent before t1, present after t2) and the Retraction events exactly
\* those whose junction position is gone (present before, absent after):
\* whether a node is near the tip position in those frames plays no part.
C22_JunctionOnly ==
    (pc = "analyze" /\ loop_i > 0 /\ persistence_window > 1 /\ NoDynamics) =>
        LET seen1(pr) ==
                [tip_position |-> RowPos(df_t1.rows[pr[1]]),
                 junction_position |-> RowPos(df_t1.rows[pr[2]]),
                 distance |-> ClaimDist2(RowPos(df_t1.rows[pr[1]]),
                                         RowPos(df_t1.rows[pr[2]]))]
            seen2(pr) ==
                [tip_position |-> RowPos(df_t2.rows[pr[1]]),
                 junction_position |-> RowPos(df_t2.rows[pr[2]]),
                 distance |-> ClaimDist2(RowPos(df_t2.rows[pr[1]]),
                                         RowPos(df_t2.rows[pr[2]]))]
        IN /\ SameBag(ShownTipJunction(events.extrusion),
                      {pr \in TipJunctionPairs(df_t2, Appeared(df_t1, df_t2)) :
                          NewAt(RowPos(df_t2.rows[pr[2]]))}, seen2)
           /\ SameBag(ShownTipJunction(events.retraction),
                      {pr \in TipJunctionPairs(df_t1, Disappeared(df_t1, df_t2)) :
                          GoneAt(RowPos(df_t1.rows[pr[2]]))}, seen1)

\* A retraction is emitted for a junction that was there in the frame before
\* t1 although no node was near the tip position in that frame
C22_Witness ==
    /\ pc = "analyze" /\ loop_i > 0 /\ persistence_window > 1 /\ NoDynamics
    /\ WindowBefore # {}
    /\ Len(events.retraction) = 1
    /\ \A tp \in WindowBefore : ~NodeNear(tp, events.retraction[1].tip_position)

\* C23: the gate of a category is applied exactly when the column it reads
\* is in the frame it reads it from.  TipEdgeFusion reads convergence_raw of
\* the t2 row: with the column in df_t2 the events are the candidates with a
\* positive value, each carrying it, whatever else is missing; without it
\* they are all the candidates and carry no signal.  JunctionBreakage reads
\* divergence_raw of the t1 row in the same way.
C23_GateWhenAvailable ==
    pc = "done" =>
        LET seen(i, signal) ==
                [position_t1 |-> SeenOneToOne(i).position_t1,
                 position_t2 |-> SeenOneToOne(i).position_t2,
                 degree_t1 |-> SeenOneToOne(i).degree_t1,
                 degree_t2 |-> SeenOneToOne(i).degree_t2,
                 signal |-> signal]
            gatedF(i) == seen(i, <<ConvergenceOfPartner(i)>>)
            gatedB(i) == seen(i, <<DivergenceOf(i)>>)
            ungated(i) == seen(i, <<>>)
        IN /\ IF "convergence_raw" \in df_t2.columns
              THEN SameBag(ShownFusion(events.tip_edge_fusion),
                           {i \in FusionCandidates : ConvergenceOfPartner(i) > 0},
                           gatedF)
              ELSE SameBag(ShownFusion(events.tip_edge_fusion), FusionCandidates,
                           ungated)
           /\ IF "divergence_raw" \in df_t1.columns
              THEN SameBag(ShownBreakage(events.junction_breakage),
                           {i \in BreakageCandidates : DivergenceOf(i) > 0},
                           gatedB)
              ELSE SameBag(ShownBreakage(events.junction_breakage),
                           BreakageCandidates, ungated)

\* The degree-1 rows of pool in frame d, and whether they are pairwise within
\* twice the threshold
TipsOf(d, pool) == {i \in pool : ListLen(d.rows[i]) = 1}
PairwiseClose(d, tips) ==
    \A i, j \in tips :
        ClaimWithin(RowPos(d.rows[i]), RowPos(d.rows[j]), 2 * distance_threshold)

\* C24: events are not deduplicated by node.  With no gating, k disappeared
\* tips pairwise within 2 * threshold yield k(k-1)/2 TipTipFusion events (and
\* k appeared ones as many TipTipFission events), and every category of
\* unmatched nodes holds one event for each of its candidate pairs, however
\* many pairs of this or of another category a node is part of.
C24_NoDeduplication ==
    (pc = "done" /\ NoDynamics) =>
        LET gone == Disappeared(df_t1, df_t2)
            come == Appeared(df_t1, df_t2)
            k1 == Cardinality(TipsOf(df_t1, gone))
            k2 == Cardinality(TipsOf(df_t2, come))
        IN /\ PairwiseClose(df_t1, TipsOf(df_t1, gone)) =>
                 2 * Len(events.tip_tip_fusion) = k1 * (k1 - 1)
           /\ PairwiseClose(df_t2, TipsOf(df_t2, come)) =>
                 2 * Len(events.tip_tip_fission) = k2 * (k2 - 1)
           /\ Len(events.tip_tip_fusion) = Cardinality(TipPairs(df_t1, gone))
           /\ Len(events.tip_tip_fission) = Cardinality(TipPairs(df_t2, come))
           /\ Len(events.retraction) = Cardinality(TipJunctionPairs(df_t1, gone))
           /\ Len(events.extrusion) = Cardinality(TipJunctionPairs(df_t2, come))

\* Three disappeared tips pairwise within twice the threshold, not all at
\* one place: three TipTipFusion events, each tip in two of them
C24_Witness ==
    /\ pc = "done" /\ NoDynamics
    /\ Cardinality(TipsOf(df_t1, Disappeared(df_t1, df_t2))) = 3
    /\ PairwiseClose(df_t1, TipsOf(df_t1, Disappeared(df_t1, df_t2)))
    /\ Len(events.tip_tip_fusion) = 3
    /\ \E k \in 1..3 : events.tip_tip_fusion[k].distance > 0

\* C25: every event emitted for the transition (t1, t2) carries
\* timepoint_1 = t1 and timepoint_2 = t2, in each of the six categories, also
\* when the time points of the series are not consecutive integers.
C25_TimepointPair ==
    (pc = "analyze" /\ loop_i > 0) =>
        \A cat \in Categories :
            \A k \in DOMAIN events[cat] :
                /\ events[cat][k].timepoint_1 = LastT1
                /\ events[cat][k].timepoint_2 = LastT2

\* The call of the state, and the t1 rows with two or more t2 matches
ThisCall ==
    Call(df_t1, df_t2, distance_threshold, z_scale, combined_df,
         persistence_window)
ManyMatched == {i \in DOMAIN df_t1.rows : Cardinality(MatchedTo(i)) >= 2}

\* C26: only the t1 side of a match must be unique.  A t1 row with two or
\* more t2 matches is not in the disappeared pool and none of its matches is
\* in the appeared pool, and it yields no TipEdgeFusion or JunctionBreakage
\* event: with no gating those lists hold one event for each t1 row that has
\* exactly one match and the degree transition, also when two such rows have
\* the same t2 row for their match.
C26_UniqueOnT1Side ==
    (pc = "done" /\ NoDynamics) =>
        /\ \A i \in ManyMatched :
              /\ i \notin disappeared_t1(ThisCall)
              /\ MatchedTo(i) \cap appeared_t2(ThisCall) = {}
        /\ Len(events.tip_edge_fusion) = Cardinality(FusionCandidates)
        /\ Len(events.junction_breakage) = Cardinality(BreakageCandidates)
        /\ (DOMAIN matches = ManyMatched) =>
              events.tip_edge_fusion = <<>> /\ events.junction_breakage = <<>>

\* Two t1 tips whose single match is the same t2 junction: two TipEdgeFusion
\* events
C26_Witness ==
    /\ pc = "done" /\ NoDynamics
    /\ \E i, j \in FusionCandidates :
          i # j /\ Partner(df_t1, df_t2, i) = Partner(df_t1, df_t2, j)
    /\ Len(df_t2.rows) = 1
    /\ Len(events.tip_edge_fusion) = 2

\* The two components of A . v have an even sum, for the integer vectors v
\* with entries of absolute value up to MaxCount
EvenEffects ==
    \A v \in [1..6 -> (-MaxCount)..MaxCount] :
        (Predicted(v)[1] + Predicted(v)[2]) % 2 = 0

\* Every (delta_tips, delta_junctions) of even sum within MaxDelta is A . v
\* for a vector v of nonnegative integers
EvenSolvable ==
    \A b \in ((-MaxDelta)..MaxDelta) \X ((-MaxDelta)..MaxDelta) :
        (b[1] + b[2]) % 2 = 0 =>
            \E v \in [1..6 -> 0..MaxDelta] : Predicted(v) = <<b[1], b[2]>>

\* C27: A . v has an even sum of components for every integer vector v, so
\* for an observed (delta_tips, delta_junctions) of odd sum no method
\* returns perfect_match = True (one of the two residuals is not 0), and for
\* every pair of even sum a nonnegative integer solution exists.
C27_Parity ==
    /\ EvenEffects
    /\ EvenSolvable
    /\ (pc = "inferred" /\ (delta_tips + delta_junctions) % 2 = 1) =>
          /\ ~inference.topology_match.perfect_match
          /\ inference.topology_match.residual_tips
               + inference.topology_match.residual_junctions >= 1

\* minimize_total on (delta_tips, delta_junctions) = (2, 1): linprog succeeds
\* and the rounded counts miss the observation by one
C27_Witness ==
    /\ pc = "inferred" /\ method = "minimize_total"
    /\ delta_tips = 2 /\ delta_junctions = 1
    /\ solver_steps = <<Step("linprog", TRUE)>>
    /\ ~inference.topology_match.perfect_match
    /\ inference.topology_match.residual_tips
         + inference.topology_match.residual_junctions = 1

\* The first and the last time point of the series
FirstTime == CHOOSE t \in SeriesTimes : \A u \in SeriesTimes : t <= u
LastTime == CHOOSE t \in SeriesTimes : \A u \in SeriesTimes : u <= t

\* The tips and junctions counted in the frame of time point tp
CountsAt(tp) == reconciliation_calculate_topology_metrics(FrameAt(combined_df, tp))

\* C28: the total observed change of the reconciliation telescopes: the sum
\* of the per-transition delta_tips (delta_junctions) is the tip (junction)
\* count of the last time point minus that of the first, and the
\* discrepancy is that difference minus the change expected from the
\* detected events.
C28_Telescopes ==
    pc = "reconciled" =>
        LET tips == CountsAt(LastTime).num_tips - CountsAt(FirstTime).num_tips
            junctions == CountsAt(LastTime).num_junctions
                           - CountsAt(FirstTime).num_junctions
            by_transition == reconciliation.actual_changes_by_transition
            from_events == calculate_expected_topology_changes(all_events)
        IN /\ SumSeq([n \in DOMAIN by_transition |-> by_transition[n].delta_tips])
                = tips
           /\ SumSeq([n \in DOMAIN by_transition |->
                         by_transition[n].delta_junctions]) = junctions
           /\ reconciliation.summary.Tips.actual_change = tips
           /\ reconciliation.summary.Junctions.actual_change = junctions
           /\ reconciliation.summary.Tips.discrepancy
                = tips - from_events.expected_delta_tips
           /\ reconciliation.summary.Junctions.discrepancy
                = junctions - from_events.expected_delta_junctions

\* Three time points whose middle frame has a tip count other than the
\* first's and the last's: both transitions have a non-zero delta_tips
C28_Witness ==
    /\ pc = "reconciled"
    /\ Len(reconciliation.actual_changes_by_transition) = 2
    /\ reconciliation.actual_changes_by_transition[1].delta_tips > 0
    /\ reconciliation.actual_changes_by_transition[2].delta_tips < 0
    /\ reconciliation.summary.Tips.actual_change = 0

\* The adjacency values of the two frames of the call
CallAdjacencies ==
    {df_t1.rows[k].adjacencies : k \in DOMAIN df_t1.rows}
        \cup {df_t2.rows[k].adjacencies : k \in DOMAIN df_t2.rows}

\* C29: for every adjacency field value (list, string of a list, string of
\* a non-list literal, unparseable string, missing value) the classifier
\* computes a degree, and it is the degree the reconciliation module and
\* the inference module compute for the same value.
C29_SameDegree ==
    pc \in {"done", "raised"} =>
        \A adj_str \in CallAdjacencies :
            /\ ~DegreeRaises(adj_str)
            /\ calculate_degree_from_adjacencies(adj_str)
                 = reconciliation_calculate_degree_from_adjacencies(adj_str)
            /\ calculate_degree_from_adjacencies(adj_str)
                 = inference_calculate_degree_from_adjacencies(adj_str)

--------------------------------------------------------------------------
(* Manual event correction (manual_event_correction.py) and the events    *)
(* layer (layer_loader.py)                                                *)

\* The number of add and delete calls of a session
MaxOps == 2

\* EVENT_TYPES of manual_event_correction
EVENT_TYPES ==
    [tip_edge_fusion |->
        [name |-> "Tip-Edge Fusion", csv_file |-> "tip_edge_fusion_events.csv",
         position_fields |-> <<"position_t1", "position_t2">>],
     junction_breakage |->
        [name |-> "Junction Breakage", csv_file |-> "junction_breakage_events.csv",
         position_fields |-> <<"position_t1", "position_t2">>],
     tip_tip_fusion |->
        [name |-> "Tip-Tip Fusion", csv_file |-> "tip_tip_fusion_events.csv",
         position_fields |-> <<"tip1_position", "tip2_position">>],
     tip_tip_fission |->
        [name |-> "Tip-Tip Fission", csv_file |-> "tip_tip_fission_events.csv",
         position_fields |-> <<"tip1_position", "tip2_position">>],
     extrusion |->
        [name |-> "Extrusion", csv_file |-> "extrusion_events.csv",
         position_fields |-> <<"tip_position", "junction_position">>],
     retraction |->
        [name |-> "Retraction", csv_file |-> "retraction_events.csv",
         position_fields |-> <<"tip_position", "junction_position">>]]

\* event_types of load_dynamics_events_layer, in the order of the dict
LoaderEventTypes ==
    << [csv_file |-> "tip_edge_fusion_events.csv", name |-> "Tip-Edge Fusion"],
       [csv_file |-> "junction_breakage_events.csv", name |-> "Junction Breakage"],
       [csv_file |-> "tip_tip_fusion_events.csv", name |-> "Tip-Tip Fusion"],
       [csv_file |-> "tip_tip_fission_events.csv", name |-> "Tip-Tip Fission"],
       [csv_file |-> "extrusion_events.csv", name |-> "Extrusion"],
       [csv_file |-> "retraction_events.csv", name |-> "Retraction"] >>

\* The event CSV files a folder can hold
CsvFiles == {LoaderEventTypes[n].csv_file : n \in 1..6}

\* The columns that hold a position
PositionColumns == {"position_t1", "position_t2", "tip1_position",
                    "tip2_position", "tip_position", "junction_position"}

\* df.to_csv(csv_path, index=False) followed by pd.read_csv(csv_path): a
\* cell that held a list comes back as the string of the list
WriteCsv(df) ==
    [n \in DOMAIN df |->
        [f \in DOMAIN df[n] |->
            IF f \in PositionColumns /\ df[n][f].kind = "list"
            THEN AdjStr(df[n][f].items)
            ELSE df[n][f]]]

\* parse_position: [z, y, x] of a list or tuple of three or more numbers,
\* or of the string of one; None for anything else
parse_position(position_value) ==
    LET parsed == IF position_value.kind = "str_list"
                  THEN AdjList(position_value.items)
                  ELSE position_value
    IN IF parsed.kind \in {"list", "tuple"} /\ Len(parsed.items) >= 3
       THEN Some(<<parsed.items[3], parsed.items[2], parsed.items[1]>>)
       ELSE None

\* The points of one row in extract_event_points: the positions shown for
\* the row when its timepoint_2 is the current time point
RowPoints(row, tp) ==
    LET shown == "timepoint_2" \in DOMAIN row /\ tp = row.timepoint_2
        both(f, g) ==
            IF shown /\ parse_position(row[f]) # None
                     /\ parse_position(row[g]) # None
            THEN <<parse_position(row[f])[1], parse_position(row[g])[1]>>
            ELSE <<>>
    IN IF {"position_t1", "position_t2"} \subseteq DOMAIN row
       THEN IF shown /\ parse_position(row.position_t2) # None
            THEN <<parse_position(row.position_t2)[1]>>
            ELSE <<>>
       ELSE IF {"tip1_position", "tip2_position"} \subseteq DOMAIN row
       THEN both("tip1_position", "tip2_position")
       ELSE IF {"tip_position", "junction_position"} \subseteq DOMAIN row
       THEN both("tip_position", "junction_position")
       ELSE <<>>

\* extract_event_points: one entry per point, with its properties
extract_event_points(df, config, tp) ==
    Flatten([n \in DOMAIN df |->
               LET row_points == RowPoints(df[n], tp)
               IN [m \in DOMAIN row_points |->
                     [point |-> row_points[m], event_type |-> config.name,
                      timepoint |-> df[n].timepoint_2]]])

\* load_dynamics_events_layer(viewer, current_timepoint): the 'Dynamic
\* Events' layer afterwards.  With no point to show the layers are left as
\* they are; otherwise a new layer replaces the old one, with the
\* properties event_type and timepoint and nothing selected
load_dynamics_events_layer(files, layer, tp) ==
    LET of_file(n) ==
            LET config == LoaderEventTypes[n]
            IN IF files[config.csv_file] = None THEN <<>>
               ELSE extract_event_points(files[config.csv_file][1], config, tp)
        all_points == Flatten([n \in 1..6 |-> of_file(n)])
    IN IF all_points # <<>>
       THEN Some([data |-> [n \in DOMAIN all_points |-> all_points[n].point],
                  properties |->
                      [event_type |->
                           [n \in DOMAIN all_points |-> all_points[n].event_type],
                       timepoint |->
                           [n \in DOMAIN all_points |-> all_points[n].timepoint]],
                  selected_data |-> {}])
       ELSE layer

\* events_layer.properties.get(key, [None] * len(events_layer.data))
PropertyGet(layer, key) ==
    IF key \in DOMAIN layer.properties THEN layer.properties[key]
    ELSE [n \in DOMAIN layer.data |-> None]

\* find_selected_event: None, or the tuple (event_type_key, csv_row_idx,
\* position, csv_file)
find_selected_event(viewer_layer) ==
    IF viewer_layer = None THEN None
    ELSE LET layer == viewer_layer[1]
         IN IF Cardinality(layer.selected_data) # 1 THEN None
            ELSE LET selected_idx == CHOOSE n \in layer.selected_data : TRUE
                     event_type == layer.properties.event_type[selected_idx]
                     keys == {key \in DOMAIN EVENT_TYPES :
                                 EVENT_TYPES[key].name = event_type}
                 IN IF keys = {} THEN None
                    ELSE Some([event_type_key |-> CHOOSE key \in keys : TRUE,
                               csv_row_idx |->
                                   PropertyGet(layer, "csv_row_index")[selected_idx],
                               position |-> layer.data[selected_idx],
                               csv_file |->
                                   PropertyGet(layer, "csv_file")[selected_idx]])

\* The sequence q without its element number r
WithoutRow(q, r) ==
    [n \in 1..(Len(q) - 1) |-> IF n < r THEN q[n] ELSE q[n + 1]]

\* What a call leaves: what it returned (or the exception it raised), the
\* files, the log and the layer
Outcome(result, files, log, layer) ==
    [returned |-> result, event_files |-> files, modifications |-> log,
     events_layer |-> layer]

\* delete_selected_event(viewer, widget, current_timepoint)
delete_selected_event(files, layer, log, tp) ==
    LET selection == find_selected_event(layer)
    IN IF selection = None THEN Outcome("False", files, log, layer)
       ELSE IF selection[1].csv_file = None
       THEN \* os.path.join(app_state.loaded_folder, None)
            Outcome("TypeError", files, log, layer)
       ELSE IF files[selection[1].csv_file[1]] = None
       THEN Outcome("False", files, log, layer)
       ELSE LET csv_path == selection[1].csv_file[1]
                df == files[csv_path][1]
                csv_row_idx == selection[1].csv_row_idx
            IN IF csv_row_idx = None \/ csv_row_idx[1] >= Len(df)
               THEN Outcome("False", files, log, layer)
               ELSE IF csv_row_idx[1] < -Len(df)
               THEN \* df.iloc[csv_row_idx]
                    Outcome("IndexError", files, log, layer)
               ELSE LET r == IF csv_row_idx[1] >= 0 THEN csv_row_idx[1] + 1
                             ELSE Len(df) + csv_row_idx[1] + 1
                        written ==
                            [files EXCEPT
                               ![csv_path] = Some(WriteCsv(WithoutRow(df, r)))]
                    IN Outcome("True", written,
                               Append(log,
                                      [action |-> "delete",
                                       event_type |-> selection[1].event_type_key,
                                       row_index |-> csv_row_idx[1],
                                       data |-> df[r]]),
                               load_dynamics_events_layer(written, layer, tp))

\* create_event_data: the record of a new event at a napari position
\* [z, y, x], stored as [x, y, z]
create_event_data(event_type_key, napari_position, tp) ==
    LET pos_storage ==
            AdjList(<<napari_position[3], napari_position[2], napari_position[1]>>)
        event_data == [timepoint_1 |-> IF tp > 1 THEN tp - 1 ELSE tp,
                       timepoint_2 |-> tp]
    IN IF event_type_key \in {"tip_edge_fusion", "junction_breakage"}
       THEN event_data @@
            [position_t1 |-> pos_storage, position_t2 |-> pos_storage,
             degree_t1 |-> IF event_type_key = "tip_edge_fusion" THEN 1 ELSE 3,
             degree_t2 |-> IF event_type_key = "tip_edge_fusion" THEN 3 ELSE 1]
       ELSE IF event_type_key \in {"tip_tip_fusion", "tip_tip_fission"}
       THEN event_data @@
            [tip1_position |-> pos_storage, tip2_position |-> pos_storage,
             distance |-> 0]
       ELSE IF event_type_key \in {"extrusion", "retraction"}
       THEN event_data @@
            [tip_position |-> pos_storage, junction_position |-> pos_storage,
             distance |-> 0]
       ELSE event_data

\* add_event_at_cursor(viewer, widget, event_type_key, current_timepoint);
\* cursor_pos is viewer.cursor.position
add_event_at_cursor(files, layer, log, event_type_key, cursor_pos, tp) ==
    IF event_type_key \notin DOMAIN EVENT_TYPES
    THEN Outcome("False", files, log, layer)
    ELSE IF cursor_pos = None \/ Len(cursor_pos[1]) < 3
    THEN Outcome("False", files, log, layer)
    ELSE LET napari_position ==
                 SubSeq(cursor_pos[1], Len(cursor_pos[1]) - 2, Len(cursor_pos[1]))
             event_data == create_event_data(event_type_key, napari_position, tp)
             csv_path == EVENT_TYPES[event_type_key].csv_file
             df == IF files[csv_path] # None THEN files[csv_path][1] ELSE <<>>
             written ==
                 [files EXCEPT ![csv_path] = Some(WriteCsv(Append(df, event_data)))]
         IN Outcome("True", written,
                    Append(log, [action |-> "add", event_type |-> event_type_key,
                                 data |-> event_data]),
                    load_dynamics_events_layer(written, layer, tp))

--------------------------------------------------------------------------
(* A session of manual corrections in the viewer                          *)

\* The values of the image slider
SliderValues == 1..2

\* The event types the add keys pass, and one that is no key of EVENT_TYPES
AddKeys == DOMAIN EVENT_TYPES \cup {"merge"}

\* viewer.cursor.position: None, a 2-D position, a 3-D position [z, y, x]
\* and a 4-D position [t, z, y, x]
Cursors == {None, Some(<<1, 2>>), Some(<<3, 2, 1>>), Some(<<0, 3, 2, 1>>)}

\* A file written by an earlier add of the event type at the time point
FileWith(event_type_key, tp) ==
    Some(WriteCsv(<<create_event_data(event_type_key, <<1, 1, 1>>, tp)>>))

\* The folders the session starts with: each of the first and the third
\* file is missing, holds a header and no row, or holds one event
InitialFiles ==
    {[f \in CsvFiles |->
        IF f = "tip_edge_fusion_events.csv" THEN first
        ELSE IF f = "tip_tip_fusion_events.csv" THEN third
        ELSE None] :
     first \in {None, Some(<<>>)}
                 \cup {FileWith("tip_edge_fusion", tp) : tp \in SliderValues},
     third \in {None} \cup {FileWith("tip_tip_fusion", tp) : tp \in SliderValues}}

\* The selections the user makes on a layer: nothing, one point, or the
\* first two points
Selections(layer) ==
    {{}} \cup {{n} : n \in DOMAIN layer.data}
         \cup {{1, 2} \cap DOMAIN layer.data}

\* The viewer shows a time point: reload_visualization has cleared the
\* layers and loaded the events layer
InitCorrect ==
    /\ pc = "viewing"
    /\ event_files \in InitialFiles
    /\ current_timepoint \in SliderValues
    /\ events_layer = load_dynamics_events_layer(event_files, None,
                                                 current_timepoint)
    /\ modifications = <<>>
    /\ calls = <<>>
    /\ before_call = None
    /\ df_t1 = NoFrame /\ df_t2 = NoFrame /\ combined_df = NoFrame
    /\ distance_threshold = 1 /\ z_scale = <<1, 1>> /\ persistence_window = 1
    /\ matches = EmptyDict
    /\ events = NoEvents
    /\ SeriesIdle
    /\ ExpectIdle
    /\ InferIdle

\* The slider moves: reload_visualization clears the layers and calls
\* load_dynamics_events_layer for the new value
ReloadVisualization ==
    /\ pc = "viewing"
    /\ \E tp \in SliderValues \ {current_timepoint} :
          /\ current_timepoint' = tp
          /\ events_layer' = load_dynamics_events_layer(event_files, None, tp)
    /\ UNCHANGED <<pc, event_files, modifications, calls, before_call>>
    /\ UNCHANGED <<callVars, seriesVars, expectVars, inferVars>>

\* The user changes the selection of the events layer
SelectPoints ==
    /\ pc = "viewing"
    /\ events_layer # None
    /\ \E picked \in Selections(events_layer[1]) \ {events_layer[1].selected_data} :
          events_layer' = Some([events_layer[1] EXCEPT !.selected_data = picked])
    /\ UNCHANGED <<pc, event_files, current_timepoint, modifications, calls,
                   before_call>>
    /\ UNCHANGED <<callVars, seriesVars, expectVars, inferVars>>

\* What a call leaves in the variables
Leave(action, event_type_key, outcome) ==
    /\ event_files' = outcome.event_files
    /\ events_layer' = outcome.events_layer
    /\ modifications' = outcome.modifications
    /\ calls' = Append(calls, [action |-> action, event_type |-> event_type_key,
                               returned |-> outcome.returned])
    /\ before_call' = Some([event_files |-> event_files,
                            modifications |-> modifications])

\* Key 'd': delete_selected_event(viewer, widget, current_tp)
DeleteSelectedEvent ==
    /\ pc = "viewing"
    /\ Len(calls) < MaxOps
    /\ LET selection == find_selected_event(events_layer)
       IN Leave("delete",
                IF selection = None THEN "none" ELSE selection[1].event_type_key,
                delete_selected_event(event_files, events_layer, modifications,
                                      current_timepoint))
    /\ UNCHANGED <<pc, current_timepoint>>
    /\ UNCHANGED <<callVars, seriesVars, expectVars, inferVars>>

\* Keys '1' to '6': add_event_at_cursor(viewer, widget, key, current_tp)
AddEventAtCursor ==
    /\ pc = "viewing"
    /\ Len(calls) < MaxOps
    /\ \E event_type_key \in AddKeys, cursor_pos \in Cursors :
          Leave("add", event_type_key,
                add_event_at_cursor(event_files, events_layer, modifications,
                                    event_type_key, cursor_pos, current_timepoint))
    /\ UNCHANGED <<pc, current_timepoint>>
    /\ UNCHANGED <<callVars, seriesVars, expectVars, inferVars>>

NextCorrect ==
    ReloadVisualization \/ SelectPoints \/ DeleteSelectedEvent \/ AddEventAtCursor

SpecCorrect == InitCorrect /\ [][NextCorrect]_vars

\* The call returned True
Succeeded(call) == call.returned = "True"

\* The number of records of a file's table; a missing file has none
TableSize(files, csv_path) ==
    IF files[csv_path] = None THEN 0 ELSE Len(files[csv_path][1])

\* The last call changed the table of its event type by delta records and
\* no other table
LastCallChanged(delta) ==
    LET csv_path == EVENT_TYPES[calls[Len(calls)].event_type].csv_file
    IN /\ TableSize(event_files, csv_path)
            = TableSize(before_call[1].event_files, csv_path) + delta
       /\ \A f \in CsvFiles \ {csv_path} :
             event_files[f] = before_call[1].event_files[f]

\* C30: after any sequence of manual add and delete calls the modification
\* log holds one entry per call that returned True, in call order; each
\* such call changed the table of its event type by one record (+1 for an
\* add, -1 for a delete, of the logged row); and every other call returned
\* False and left the tables and the log as they were.
C30_LogMatchesCalls ==
    LET succeeded == SelectSeq(calls, Succeeded)
    IN /\ Len(modifications) = Len(succeeded)
       /\ \A n \in DOMAIN succeeded :
             /\ modifications[n].action = succeeded[n].action
             /\ modifications[n].event_type = succeeded[n].event_type
       /\ \A n \in DOMAIN calls : calls[n].returned \in {"True", "False"}
       /\ calls # <<>> =>
             LET last_call == calls[Len(calls)]
             IN /\ (Succeeded(last_call) /\ last_call.action = "add") =>
                      LastCallChanged(1)
                /\ (Succeeded(last_call) /\ last_call.action = "delete") =>
                      /\ LastCallChanged(-1)
                      /\ modifications[Len(modifications)].data
                           \in {before_call[1].event_files[f][1][r] :
                                  f \in {g \in CsvFiles :
                                           before_call[1].event_files[g] # None},
                                  r \in 1..MaxOps + 1}
                /\ ~Succeeded(last_call) =>
                      /\ event_files = before_call[1].event_files
                      /\ modifications = before_call[1].modifications

==========================================================================
